---- MODULE Spec2Model ----
(***************************************************************************)
(* JobLens AI browser extension: the background service worker's quota     *)
(* ledger, result cache and analyze handler, and the content script's job  *)
(* identity tracker, as state machines.                                    *)
(*                                                                         *)
(* Text (urls, resume text, titles) is a sequence of character codes.      *)
(* Every async function is cut at its awaits: one action per continuation. *)
(* chrome.storage.local is shared state; a get delivers a snapshot, a set  *)
(* or remove issued by a continuation is applied by a later action.        *)
(***************************************************************************)
EXTENDS Integers, Sequences, FiniteSets, TLC

\* ------------------------------------------------------------------ bounds
\* concurrent request slots of the background worker
NProcs == 2
\* clock advances per behaviour
MaxTicks == 2
\* fresh analyses counted before the model stops starting requests
MaxFresh == 12
\* url changes of the page followed by the page-check timers
MaxNavs == 2
\* those of them that run the history hook
MaxHooks == 1
\* sidebar analysis requests in flight at once
MaxRequests == 2
\* tabs with a content script, and background handlers of their messages in flight
MaxTabs == 2
MaxHandlers == 2
\* saveAnalysisToHistory calls made on a stored history
MaxSaves == 2
\* clicks on the Analyze button
MaxClicks == 2
\* storage-change, focus and visibility events
MaxRefresh == 2

\* --------------------------------------------------------------- constants
DAILY_LIMIT == 10
CACHE_TTL_MS == 24 * 60 * 60 * 1000
FETCH_TIMEOUT_MS == 60000
\* one UTC calendar day, the granularity of toISOString().split("T")[0]
MS_PER_DAY == 24 * 60 * 60 * 1000

Procs == 1..NProcs

Min(a, b) == IF a < b THEN a ELSE b
Abs(x) == IF x < 0 THEN -x ELSE x

\* ------------------------------------------------------------------- text
\* tab, line feed, space
WhiteSpace == {9, 10, 32}
\* String.prototype.trim on a sequence of character codes
RECURSIVE TrimLeft(_)
TrimLeft(s) ==
    IF s # <<>> /\ Head(s) \in WhiteSpace THEN TrimLeft(Tail(s)) ELSE s
RECURSIVE TrimRight(_)
TrimRight(s) ==
    IF s # <<>> /\ s[Len(s)] \in WhiteSpace
    THEN TrimRight(SubSeq(s, 1, Len(s) - 1)) ELSE s
Trim(s) == TrimRight(TrimLeft(s))

\* ---------------------------------------------------------------- utilities
\* getTodayKey: the UTC date of the clock; the date string "YYYY-MM-DD" is
\* represented by the day number it denotes (equal strings <=> equal numbers).
getTodayKey(t) == t \div MS_PER_DAY

\* hashUrl's loop: hash = ((hash << 5) - hash + char) | 0.  The urls of the
\* model are at most three characters of codes below 128, so every value
\* stays far below 2^31 and the 32-bit truncation (hash & hash) is the identity.
RECURSIVE hashLoop(_, _)
hashLoop(url, hash) ==
    IF url = <<>> THEN hash
    ELSE hashLoop(Tail(url), (hash * 32) - hash + Head(url))

\* Number.prototype.toString(36): the base-36 digits, most significant first
RECURSIVE toString36(_)
toString36(n) ==
    IF n < 36 THEN <<n>> ELSE Append(toString36(n \div 36), n % 36)

hashUrl(url) == toString36(Abs(hashLoop(url, 0)))

\* `cache_${hashUrl(url)}`: the storage key of a url's cache entry
CacheKey(url) == hashUrl(url)

\* ----------------------------------------------------------------- inputs
\* "", "Aa", "BB", "C": hashUrl("Aa") = hashUrl("BB")
Urls == {<<>>, <<65, 97>>, <<66, 66>>, <<67>>}
\* " ", "c", "d"
Resumes == {<<32>>, <<99>>, <<100>>}
NoJob == [title |-> <<0>>, none |-> TRUE]
Job(t) == [title |-> t, none |-> FALSE]
\* null, a posting without title, a posting titled "J"
Jobs == {NoJob, Job(<<>>), Job(<<74>>)}

Keys == {CacheKey(u) : u \in Urls \ {<<>>}}

NoRec == [date |-> -1, remaining |-> -1, none |-> TRUE]
Rec(d, r) == [date |-> d, remaining |-> r, none |-> FALSE]

NoResult == [job |-> NoJob, resume |-> <<>>, none |-> TRUE]
\* the backend's analysis of a posting against a resume
Analysis(job, resume) == [job |-> job, resume |-> resume, none |-> FALSE]

NoEntry == [result |-> NoResult, timestamp |-> -1, url |-> <<>>, none |-> TRUE]
Entry(r, t, u) == [result |-> r, timestamp |-> t, url |-> u, none |-> FALSE]

VARIABLES
    now,        \* Date.now(), in ms
    ticks,      \* clock advances so far
    rateLimit,  \* chrome.storage.local "rateLimit"
    cache,      \* chrome.storage.local "cache_<hash>" entries, by key
    proc,       \* per request slot: position, arguments and locals
    ret,        \* per request slot: what the call returned or threw
    eff,        \* per request slot: the storage writes and fetches it made
    pre,        \* per request slot: the ledger as it was when the call began
    fresh,      \* fresh backend analyses per debit day
    lastPut,    \* per cache key: the latest cacheResult call and the first one's time
    overlap     \* whether a request ever began while another was in flight

\* the content script (src/content.js)
VARIABLES
    page,                     \* location.href and what the page's DOM yields
    overlayInjected,
    currentJobData,
    overlayPanel,
    lastOpenedUrl,
    currentJobIdentity,
    lastExtractionSuccessAt,
    ev                        \* the last handler run: what it saw and what it did

\* the content script's scheduling of page checks (src/content.js, init)
VARIABLES
    lastUrl,    \* the url poll's `lastUrl`
    poll,       \* time until the url poll's next interval callback
    debounced,  \* time until the debounced mutation callback (-1: none pending)
    timers,     \* pending setTimeout(onPageChange) callbacks, by time until due
    navs,       \* url changes so far
    obs         \* whether a page check ran since the last url change, and how;
                \* the url changes that ran the hook so far

\* the sidebar's analysis requests (src/content.js, requestAnalysis)
VARIABLES
    storedResume, \* chrome.storage.local "resume": whether one is stored
    rq          \* per request: where the call of requestAnalysis stands

\* a function of the program applied to an input
VARIABLES
    input,      \* the arguments of the call
    output      \* what it returned or threw (none: not called yet)

\* the background worker's per-tab job map (src/unnamed/part_002)
VARIABLES
    currentJobByTab,  \* chrome.storage.local "currentJobByTab", by tab id
    currentJob,       \* chrome.storage.local "currentJob"
    tj,               \* per handler in flight: its message, position and local map
    told              \* per tab: what its last message said, and whether the
                      \* message arrived while another of the same tab was handled

\* the analysis history (src/utils/apiClient.js)
VARIABLES
    history,    \* chrome.storage.local "history"
    hs,         \* the saveAnalysisToHistory call in flight, if any
    saved       \* every entry ever saved, oldest first

\* the background worker's ANALYZE_AND_SHOW messages (src/unnamed/part_002)
VARIABLES
    show        \* per request slot: the message it handles (its payload),
                \* and what was answered to the popup and sent to the tab,
                \* in order

\* the popup's Analyze button (src/popup.js)
VARIABLES
    analyzeBtn, \* the #analyze-btn element
    popup,      \* the popup's currentJobData and currentResume, whether its
                \* window is closed, the ANALYZE_AND_SHOW messages it sent
    ra,         \* per click: where the call of runAnalysis stands
    rf          \* calls of refreshFromActiveTab in flight

bgVars == <<now, ticks, rateLimit, cache, proc, ret, eff, pre, fresh, lastPut, overlap>>
csVars == <<page, overlayInjected, currentJobData, overlayPanel, lastOpenedUrl,
            currentJobIdentity, lastExtractionSuccessAt, ev>>
tmVars == <<lastUrl, poll, debounced, timers, navs, obs>>
rqVars == <<storedResume, rq>>
\* what neither the worker nor the content script's handlers touch
fnVars == <<input, output>>
tjVars == <<currentJobByTab, currentJob, tj, told>>
hsVars == <<history, hs, saved>>
shVars == <<show>>
ppVars == <<analyzeBtn, popup, ra, rf>>
sideVars == <<rqVars, fnVars, tjVars, hsVars, shVars, ppVars>>
\* what the actions of one part leave alone
NotRequests == <<bgVars, tmVars, fnVars, tjVars, hsVars, shVars, ppVars>>
NotFunctions == <<bgVars, csVars, tmVars, rqVars, tjVars, hsVars, shVars, ppVars>>
NotTabJobs == <<bgVars, csVars, tmVars, rqVars, fnVars, hsVars, shVars, ppVars>>
NotHistory == <<bgVars, csVars, tmVars, rqVars, fnVars, tjVars, shVars, ppVars>>
NotShow == <<csVars, tmVars, rqVars, fnVars, tjVars, hsVars, ppVars>>
NotPopup == <<bgVars, csVars, tmVars, rqVars, fnVars, tjVars, hsVars, shVars>>
extVars == <<tmVars, sideVars>>
vars == <<bgVars, csVars, extVars>>

\* ------------------------------------------------------------ quota ledger
LoadTodayKeepRemaining(stored, today) ==
    IF stored.none THEN Rec(today, DAILY_LIMIT) ELSE [stored EXCEPT !.date = today]
\* checkAndDecrementRateLimit: the record the debit works on (lazy reset)
LoadToday(stored, today) ==
    IF stored.none \/ stored.date # today THEN Rec(today, DAILY_LIMIT) ELSE stored

\* checkAndDecrementRateLimit: `if (rl.remaining <= 0) return false`
DebitRefusedBelowZero(rl) == rl.remaining < 0
DebitRefused(rl) == rl.remaining <= 0

\* checkAndDecrementRateLimit: `rl.remaining -= 1`
DebitedNothing(rl) == rl
Debited(rl) == [rl EXCEPT !.remaining = @ - 1]

\* refundRateLimitToken: `rateLimit && rateLimit.date === today`
RefundAppliesOtherDay(stored, today) == ~stored.none /\ stored.date # today
RefundApplies(stored, today) == ~stored.none /\ stored.date = today

RefundedUncapped(stored) == [stored EXCEPT !.remaining = @ + 1]
RefundedNoIncrement(stored) == stored
\* refundRateLimitToken: `Math.min(rateLimit.remaining + 1, DAILY_LIMIT)`
Refunded(stored) == [stored EXCEPT !.remaining = Min(@ + 1, DAILY_LIMIT)]

\* getRateLimitStatus: the `remaining` it reports
StatusRemaining(stored, today) ==
    IF stored.none \/ stored.date # today THEN DAILY_LIMIT ELSE stored.remaining

\* ------------------------------------------------------------ result cache
isExpiredAtTtl(entry, t) == t - entry.timestamp >= CACHE_TTL_MS
\* getCachedResult: `Date.now() - entry.timestamp > CACHE_TTL_MS`
isExpiredAlways(entry, t) == TRUE
isExpired(entry, t) == t - entry.timestamp > CACHE_TTL_MS

\* cacheResult: the entry it stores
NewEntry(url, result, t) == Entry(result, t, url)

PutEntryKeepTimestamp(c, key, entry) ==
    [c EXCEPT ![key] = IF c[key].none THEN entry
                       ELSE [entry EXCEPT !.timestamp = c[key].timestamp]]
\* cacheResult: chrome.storage.local.set({[cacheKey]: entry})
PutEntry(c, key, entry) == [c EXCEPT ![key] = entry]

\* getCachedResult: chrome.storage.local.remove([cacheKey])
RemoveEntry(c, key) == [c EXCEPT ![key] = NoEntry]

\* ------------------------------------------------------------- validation
\* handleAnalyzeJob: `!resumeText || !resumeText.trim()`
ResumeMissing(resume) == Trim(resume) = <<>>

\* handleAnalyzeJob: `!jobData || !jobData.title`
JobMissing(job) == job.none \/ job.title = <<>>

\* ------------------------------------------------------------ request slots
IdleProc ==
    [pc |-> "idle", kind |-> "none", url |-> <<>>, resume |-> <<>>, job |-> NoJob,
     rl |-> NoRec, result |-> NoResult, ts |-> -1, t0 |-> -1, err |-> ""]

NoRet ==
    [tag |-> "none", success |-> FALSE, fromCache |-> FALSE, rateLimited |-> FALSE,
     data |-> NoResult, error |-> "", remaining |-> -1, at |-> -1]

NoEff == [fetches |-> 0, rlWrites |-> 0, cacheWrites |-> 0, cacheRemoves |-> 0]

NoPre ==
    [stored |-> NoRec, effective |-> -1, day |-> -1, at |-> -1, cached |-> NoEntry,
     prevKind |-> "none", prevOk |-> FALSE, prevBefore |-> -1, prevDay |-> -1]

Returned(r) == [NoRet EXCEPT !.tag = "return", !.success = r]
RetValue(data) == [NoRet EXCEPT !.tag = "return", !.success = TRUE, !.data = data]
Thrown(e) == [NoRet EXCEPT !.tag = "throw", !.error = e]

Free(p) == proc[p].pc \in {"idle", "done"}

\* a fresh analysis is counted on the day its token was debited
Counted(p, r) ==
    LET d == proc[p].rl.date
    IN IF r.tag = "return" /\ r.success /\ ~r.fromCache /\ proc[p].kind = "analyze"
       THEN (IF d = fresh.day THEN [fresh EXCEPT !.n = @ + 1]
             ELSE IF d > fresh.day THEN [day |-> d, n |-> 1] ELSE fresh)
       ELSE fresh

\* the call of slot p ends with r: its locals die, its kind and url are kept
Finish(p, r) ==
    /\ proc' = [proc EXCEPT ![p] = [IdleProc EXCEPT !.pc = "done",
                    !.kind = proc[p].kind, !.url = proc[p].url]]
    /\ ret' = [ret EXCEPT ![p] = r]
    /\ fresh' = Counted(p, r)

\* the call of slot p suspends at its next await
Goto(p, frame) ==
    /\ proc' = [proc EXCEPT ![p] = frame]
    /\ UNCHANGED <<ret, fresh>>

\* what no continuation changes
StepFrame == UNCHANGED <<now, ticks, pre, overlap, csVars, extVars>>

\* a call begins in slot p and runs to its first await
Enter(p, frame) ==
    /\ Free(p)
    /\ ret' = [ret EXCEPT ![p] = NoRet]
    /\ eff' = [eff EXCEPT ![p] = NoEff]
    /\ proc' = [proc EXCEPT ![p] = frame]
    /\ overlap' = (overlap \/ \E q \in Procs \ {p} : ~Free(q))
    /\ UNCHANGED <<now, ticks, rateLimit, cache, fresh, NotShow>>

\* the same, for a call that is not made on behalf of an ANALYZE_AND_SHOW
\* message
Begin(p, frame) == Enter(p, frame) /\ UNCHANGED shVars

\* a call observed from outside records the ledger it starts from, and the
\* call the same caller completed just before it
Snap(p) ==
    pre' = [pre EXCEPT ![p] =
              [stored |-> rateLimit,
               effective |-> StatusRemaining(rateLimit, getTodayKey(now)),
               day |-> getTodayKey(now),
               at |-> now,
               cached |-> IF proc'[p].url = <<>> THEN NoEntry
                          ELSE cache[CacheKey(proc'[p].url)],
               prevKind |-> proc[p].kind,
               prevOk |-> ret[p].success,
               prevBefore |-> pre[p].effective,
               prevDay |-> pre[p].day]]
NoSnap(p) == pre' = [pre EXCEPT ![p] = NoPre]

\* the latest cacheResult call for a key, and the time of the first one
Put(key, entry) ==
    [lastPut EXCEPT ![key] =
        [entry |-> entry,
         first |-> IF lastPut[key].entry.none THEN entry.timestamp
                   ELSE lastPut[key].first]]

\* direct calls of the ledger and cache functions
StartDebit(p) ==
    /\ Begin(p, [IdleProc EXCEPT !.pc = "rl_get", !.kind = "debit"])
    /\ UNCHANGED lastPut
StartCredit(p) ==
    /\ Begin(p, [IdleProc EXCEPT !.pc = "refund_get", !.kind = "credit"])
    /\ UNCHANGED lastPut
StartStatus(p) ==
    /\ Begin(p, [IdleProc EXCEPT !.pc = "status_get", !.kind = "status"])
    /\ UNCHANGED lastPut
StartGetCached(p, url) ==
    /\ Begin(p, [IdleProc EXCEPT !.kind = "getCached", !.url = url,
                    !.pc = IF url = <<>> THEN "null_return" ELSE "cache_get"])
    /\ UNCHANGED lastPut
\* cacheResult reads Date.now() while it builds the entry, then awaits the set
StartCacheResult(p, url, result) ==
    /\ Begin(p, [IdleProc EXCEPT !.kind = "cacheResult", !.url = url,
                    !.result = result, !.ts = now,
                    !.pc = IF url = <<>> THEN "null_return" ELSE "cache_set"])
    /\ lastPut' = IF url = <<>> THEN lastPut
                  ELSE Put(CacheKey(url), NewEntry(url, result, now))

\* handleAnalyzeJob up to its first await: the two validations, then
\* getCachedResult(url), which returns null at once for an empty url
AnalyzeFrame(url, resume, job) ==
    [IdleProc EXCEPT
       !.kind = "analyze", !.url = url, !.resume = resume, !.job = job,
       !.pc = IF ResumeMissing(resume) THEN "throw_resume"
              ELSE IF JobMissing(job) THEN "throw_job"
              ELSE IF url = <<>> THEN "rl_get" ELSE "cache_get"]

StartAnalyze(p, url, resume, job) ==
    /\ fresh.n < MaxFresh
    /\ Begin(p, AnalyzeFrame(url, resume, job))
    /\ UNCHANGED lastPut

\* the rejected promise of a failed validation reaches the caller
ValidationThrow(p) ==
    /\ proc[p].pc \in {"throw_resume", "throw_job"}
    /\ StepFrame
    /\ UNCHANGED <<rateLimit, cache, eff, lastPut>>
    /\ Finish(p, Thrown(IF proc[p].pc = "throw_resume" THEN "resume_required"
                        ELSE "job_missing"))

\* getCachedResult / cacheResult called directly with an empty url
NullReturn(p) ==
    /\ proc[p].pc = "null_return"
    /\ StepFrame
    /\ UNCHANGED <<rateLimit, cache, eff, lastPut>>
    /\ Finish(p, [NoRet EXCEPT !.tag = "return"])

\* getRateLimitStatus: the storage get resolves, the status is returned
StatusGet(p) ==
    /\ proc[p].pc = "status_get"
    /\ StepFrame
    /\ UNCHANGED <<rateLimit, cache, eff, lastPut>>
    /\ Finish(p, [NoRet EXCEPT !.tag = "return", !.success = TRUE,
                    !.remaining = StatusRemaining(rateLimit, getTodayKey(now))])

\* checkAndDecrementRateLimit: the storage get resolves; either refuse, or
\* decrement the local copy and issue the storage set
RlGet(p) ==
    /\ proc[p].pc = "rl_get"
    /\ StepFrame
    /\ UNCHANGED <<rateLimit, cache, eff, lastPut>>
    /\ LET rl == LoadToday(rateLimit, getTodayKey(now))
       IN IF DebitRefused(rl)
          THEN Finish(p, IF proc[p].kind = "analyze"
                         THEN [NoRet EXCEPT !.tag = "return", !.rateLimited = TRUE,
                                            !.error = "rate_limited"]
                         ELSE Returned(FALSE))
          ELSE Goto(p, [proc[p] EXCEPT !.pc = "rl_set", !.rl = Debited(rl)])

\* checkAndDecrementRateLimit: the storage set is applied and it returns true;
\* handleAnalyzeJob goes on to getSettings()
RlSet(p) ==
    /\ proc[p].pc = "rl_set"
    /\ StepFrame
    /\ rateLimit' = proc[p].rl
    /\ eff' = [eff EXCEPT ![p].rlWrites = @ + 1]
    /\ UNCHANGED <<cache, lastPut>>
    /\ IF proc[p].kind = "analyze"
       THEN Goto(p, [proc[p] EXCEPT !.pc = "settings_get"])
       ELSE Finish(p, Returned(TRUE))

\* refundRateLimitToken: the storage get resolves; increment and issue the
\* set when the record is today's, else return (handleAnalyzeJob rethrows)
RefundGet(p) ==
    /\ proc[p].pc = "refund_get"
    /\ StepFrame
    /\ UNCHANGED <<rateLimit, cache, eff, lastPut>>
    /\ IF RefundApplies(rateLimit, getTodayKey(now))
       THEN Goto(p, [proc[p] EXCEPT !.pc = "refund_set", !.rl = Refunded(rateLimit)])
       ELSE Finish(p, IF proc[p].kind = "analyze" THEN Thrown(proc[p].err)
                      ELSE [NoRet EXCEPT !.tag = "return"])

\* refundRateLimitToken: the storage set is applied; handleAnalyzeJob rethrows
RefundSet(p) ==
    /\ proc[p].pc = "refund_set"
    /\ StepFrame
    /\ rateLimit' = proc[p].rl
    /\ eff' = [eff EXCEPT ![p].rlWrites = @ + 1]
    /\ UNCHANGED <<cache, lastPut>>
    /\ Finish(p, IF proc[p].kind = "analyze" THEN Thrown(proc[p].err)
                 ELSE [NoRet EXCEPT !.tag = "return"])

\* getCachedResult: the storage get resolves: miss, expired (issue the
\* remove) or hit.  handleAnalyzeJob returns a hit and goes on to the
\* ledger on a miss.
CacheGet(p) ==
    /\ proc[p].pc = "cache_get"
    /\ StepFrame
    /\ UNCHANGED <<rateLimit, cache, eff, lastPut>>
    /\ LET entry == cache[CacheKey(proc[p].url)]
       IN IF entry.none
          THEN IF proc[p].kind = "analyze"
               THEN Goto(p, [proc[p] EXCEPT !.pc = "rl_get"])
               ELSE Finish(p, [NoRet EXCEPT !.tag = "return", !.at = now])
          ELSE IF isExpired(entry, now)
          THEN Goto(p, [proc[p] EXCEPT !.pc = "cache_remove", !.ts = now])
          ELSE Finish(p, [RetValue(entry.result) EXCEPT
                            !.fromCache = (proc[p].kind = "analyze"), !.at = now])

\* getCachedResult: the storage remove of the expired key is applied and
\* null is returned
CacheRemove(p) ==
    /\ proc[p].pc = "cache_remove"
    /\ StepFrame
    /\ cache' = RemoveEntry(cache, CacheKey(proc[p].url))
    /\ eff' = [eff EXCEPT ![p].cacheRemoves = @ + 1]
    /\ UNCHANGED <<rateLimit, lastPut>>
    /\ IF proc[p].kind = "analyze"
       THEN Goto(p, [proc[p] EXCEPT !.pc = "rl_get"])
       ELSE Finish(p, [NoRet EXCEPT !.tag = "return", !.at = proc[p].ts])

\* handleAnalyzeJob: getSettings() resolves; normalizeBackendUrl throws on a
\* bad stored url (caught: refund), else the fetch is issued
SettingsGet(p, backendUrlOk) ==
    /\ proc[p].pc = "settings_get"
    /\ StepFrame
    /\ UNCHANGED <<rateLimit, cache, lastPut>>
    /\ IF backendUrlOk
       THEN /\ Goto(p, [proc[p] EXCEPT !.pc = "fetch", !.t0 = now])
            /\ eff' = [eff EXCEPT ![p].fetches = @ + 1]
       ELSE /\ Goto(p, [proc[p] EXCEPT !.pc = "refund_get",
                                       !.err = "backend_url_invalid"])
            /\ UNCHANGED eff

\* what the guarded call can end with; "timeout" is AbortSignal.timeout
FetchOutcomes == {"ok", "network_error", "http_error", "bad_json", "timeout"}

\* handleAnalyzeJob: the fetch settles.  "ok": 2xx with a JSON body, then
\* cacheResult(url, result) is called (Date.now() is read here).  Anything
\* else lands in the catch block, which calls refundRateLimitToken.
FetchSettle(p, outcome) ==
    /\ proc[p].pc = "fetch"
    /\ IF outcome = "timeout"
       THEN now - proc[p].t0 >= FETCH_TIMEOUT_MS
       ELSE now - proc[p].t0 < FETCH_TIMEOUT_MS
    /\ StepFrame
    /\ UNCHANGED <<rateLimit, cache, eff>>
    /\ IF outcome = "ok"
       THEN LET result == Analysis(proc[p].job, proc[p].resume)
            IN IF proc[p].url = <<>>
               THEN /\ Finish(p, RetValue(result))
                    /\ UNCHANGED lastPut
               ELSE /\ Goto(p, [proc[p] EXCEPT !.pc = "cache_set",
                                               !.result = result, !.ts = now])
                    /\ lastPut' = Put(CacheKey(proc[p].url),
                                      NewEntry(proc[p].url, result, now))
       ELSE /\ Goto(p, [proc[p] EXCEPT !.pc = "refund_get", !.err = outcome])
            /\ UNCHANGED lastPut

\* cacheResult: the storage set is applied
CacheSet(p) ==
    /\ proc[p].pc = "cache_set"
    /\ StepFrame
    /\ cache' = PutEntry(cache, CacheKey(proc[p].url),
                         NewEntry(proc[p].url, proc[p].result, proc[p].ts))
    /\ eff' = [eff EXCEPT ![p].cacheWrites = @ + 1]
    /\ UNCHANGED <<rateLimit, lastPut>>
    /\ Finish(p, IF proc[p].kind = "analyze" THEN RetValue(proc[p].result)
                 ELSE [NoRet EXCEPT !.tag = "return"])

\* the clock advances by d ms
Tick(d) ==
    /\ ticks < MaxTicks
    /\ now' = now + d
    /\ ticks' = ticks + 1
    /\ UNCHANGED <<rateLimit, cache, proc, ret, eff, pre, fresh, lastPut, overlap>>
    /\ UNCHANGED <<csVars, extVars>>

\* ------------------------------------------------------------ content script
\* A url is kept as what the script's patterns read from it: the site, the
\* path under it, the digits after /jobs/view/ (0: none) and the digits of a
\* currentJobId query parameter (0: none).  All urls are lower case.
Url(site, path, viewId, jobId) ==
    [site |-> site, path |-> path, viewId |-> viewId, currentJobId |-> jobId]
NoUrl == Url("", "", 0, 0)

Page(u, t, c) == [url |-> u, title |-> t, company |-> c]

\* a page: its url, and the title and company its DOM yields to the selectors
\* (an empty title: nothing to extract yet).  Titles "A", "a"; company "X".
Pages ==
    {Page(Url("linkedin", "jobs/view", 1, 1), <<>>, <<>>),
     Page(Url("linkedin", "jobs/view", 1, 1), <<65>>, <<88>>),
     Page(Url("linkedin", "jobs/view", 1, 1), <<97>>, <<88>>),
     Page(Url("linkedin", "jobs/view", 2, 1), <<65>>, <<88>>),
     Page(Url("linkedin", "jobs/search", 0, 1), <<65>>, <<88>>),
     Page(Url("internshala", "internship", 0, 0), <<65>>, <<88>>),
     Page(Url("internshala", "internship", 0, 0), <<97>>, <<88>>),
     Page(Url("linkedin", "feed", 0, 0), <<>>, <<>>)}
BlankPage == Page(Url("linkedin", "feed", 0, 0), <<>>, <<>>)

NoPosting == [url |-> NoUrl, title |-> <<>>, company |-> <<>>, none |-> TRUE]
Posting(u, t, c) == [url |-> u, title |-> t, company |-> c, none |-> FALSE]

NoIdentity == [tag |-> "", id |-> 0, sig |-> <<>>]

\* "Detected Job"
DetectedJob == <<68, 74>>

NoPanel == [none |-> TRUE, open |-> FALSE, content |-> "", button |-> "none",
            title |-> <<>>, company |-> <<>>]

NoEv == [kind |-> "none", extracted |-> FALSE, job |-> NoPosting,
         dataBefore |-> NoPosting, idBefore |-> NoIdentity,
         hadPanel |-> FALSE, contentBefore |-> "", buttonBefore |-> "none",
         readyShown |-> FALSE, sent |-> "none", sentJob |-> NoPosting,
         url |-> NoUrl]

toLowerCase(s) ==
    [i \in 1..Len(s) |-> IF s[i] \in 65..90 THEN s[i] + 32 ELSE s[i]]

isJobPageUrl(url) ==
    \/ url.site = "linkedin" /\ url.path = "jobs/view"
    \/ url.site = "linkedin" /\ url.path = "jobs/search" /\ url.currentJobId # 0
    \/ url.site = "internshala" /\ url.path \in {"internship", "jobs"}

\* null unless the extractors find a title
tryExtractJobData(pg) ==
    IF pg.title = <<>> THEN NoPosting
    ELSE Posting(pg.url, pg.title, pg.company)

getJobSignature(jobData) ==
    <<jobData.url, toLowerCase(Trim(jobData.title)),
      toLowerCase(Trim(jobData.company))>>

getJobIdentitySignatureOnly(jobData) ==
    [tag |-> "sig", id |-> 0, sig |-> getJobSignature(jobData)]
getJobIdentity(jobData) ==
    IF jobData.url.site = "linkedin" /\ jobData.url.viewId # 0
    THEN [tag |-> "li_view", id |-> jobData.url.viewId, sig |-> <<>>]
    ELSE IF jobData.url.currentJobId # 0
    THEN [tag |-> "li_search", id |-> jobData.url.currentJobId, sig |-> <<>>]
    ELSE [tag |-> "sig", id |-> 0, sig |-> getJobSignature(jobData)]

\* the panel injectOverlay builds: closed, the intro and its Analyze button
getInitialPanelHTML(jobData) ==
    [none |-> FALSE, open |-> FALSE, content |-> "intro", button |-> "unset",
     title |-> IF jobData.none \/ jobData.title = <<>> THEN DetectedJob
               ELSE jobData.title,
     company |-> IF jobData.none THEN <<>> ELSE jobData.company]

injectOverlay(panel, jobData) ==
    IF panel.none THEN getInitialPanelHTML(jobData) ELSE panel

updateSidebarJobHeader(panel, jobData) ==
    IF panel.none THEN panel
    ELSE [panel EXCEPT !.title = IF jobData.title = <<>> THEN DetectedJob
                                 ELSE jobData.title,
                       !.company = Trim(jobData.company)]

\* #jl-content is replaced, and with it any Analyze button inside it
showReadyState(panel) ==
    IF panel.none THEN panel
    ELSE [panel EXCEPT !.content = "ready", !.button = "unset"]
showLoadingState(panel) ==
    IF panel.none THEN panel
    ELSE [panel EXCEPT !.content = "loading", !.button = "none"]
showErrorState(panel) ==
    IF panel.none THEN panel
    ELSE [panel EXCEPT !.content = "error", !.button = "none"]
\* the button is looked up after the content was replaced
showResultInOverlay(panel) ==
    IF panel.none THEN panel
    ELSE [panel EXCEPT !.content = "result", !.button = "none"]

Opened(panel) == IF panel.none THEN panel ELSE [panel EXCEPT !.open = TRUE]

\* the message notifyPopup sends to the background
notifyPopupAlwaysUpsert(jobData) == [type |-> "UPSERT_CURRENT_JOB", jobData |-> jobData]
notifyPopupNothing(jobData) == [type |-> "none", jobData |-> NoPosting]
notifyPopupClearOnly(jobData) == [type |-> "CLEAR_CURRENT_JOB", jobData |-> NoPosting]
notifyPopup(jobData) ==
    [type |-> IF jobData.none THEN "CLEAR_CURRENT_JOB" ELSE "UPSERT_CURRENT_JOB",
     jobData |-> jobData]

\* onPageChange: `lastExtractionSuccessAt && Date.now() - lastExtractionSuccessAt > 12000`
tooStaleAfterOneSecond(last, t) == last # 0 /\ t - last > 1000
tooStale(last, t) == last # 0 /\ t - last > 12000

\* what a run of an extracting handler records about itself
Ran(kind) ==
    [NoEv EXCEPT !.kind = kind, !.dataBefore = currentJobData,
                 !.idBefore = currentJobIdentity, !.url = page.url,
                 !.hadPanel = ~overlayPanel.none,
                 !.contentBefore = overlayPanel.content,
                 !.buttonBefore = overlayPanel.button]

ContentFrame == UNCHANGED <<bgVars, sideVars>>

\* the page navigates, or its DOM renders something else
Navigate(pg) ==
    /\ pg # page
    /\ page' = pg
    /\ UNCHANGED <<overlayInjected, currentJobData, overlayPanel, lastOpenedUrl,
                   currentJobIdentity, lastExtractionSuccessAt, ev>>
    /\ ContentFrame

onPageChange ==
    LET url == page.url
        opening == isJobPageUrl(url) /\ url # lastOpenedUrl
        panel1 == IF opening THEN Opened(injectOverlay(overlayPanel, currentJobData))
                  ELSE overlayPanel
        jobData == tryExtractJobData(page)
        nextIdentity == getJobIdentity(jobData)
        isNewJob == currentJobIdentity # nextIdentity
        stale == tooStale(lastExtractionSuccessAt, now)
        sent(job) == [Ran("onPageChange") EXCEPT
                        !.sent = notifyPopup(job).type,
                        !.sentJob = notifyPopup(job).jobData]
    IN /\ lastOpenedUrl' = IF opening THEN url ELSE lastOpenedUrl
       /\ overlayInjected' = (overlayInjected \/ opening)
       /\ page' = page
       /\ ContentFrame
       /\ IF jobData.none
          THEN /\ overlayPanel' = panel1
               /\ IF ~isJobPageUrl(url)
                  THEN /\ currentJobData' = NoPosting
                       /\ currentJobIdentity' = NoIdentity
                       /\ lastExtractionSuccessAt' = 0
                       /\ ev' = sent(NoPosting)
                  ELSE IF stale
                  THEN /\ currentJobData' = NoPosting
                       /\ currentJobIdentity' = NoIdentity
                       /\ UNCHANGED lastExtractionSuccessAt
                       /\ ev' = sent(NoPosting)
                  ELSE /\ UNCHANGED <<currentJobData, currentJobIdentity,
                                      lastExtractionSuccessAt>>
                       /\ ev' = Ran("onPageChange")
          ELSE /\ currentJobData' = jobData
               /\ currentJobIdentity' = nextIdentity
               /\ lastExtractionSuccessAt' = now
               /\ overlayPanel' =
                    LET panel2 == updateSidebarJobHeader(panel1, jobData)
                    IN IF isNewJob THEN showReadyState(panel2) ELSE panel2
               /\ ev' = [sent(jobData) EXCEPT
                           !.extracted = TRUE, !.job = jobData,
                           !.readyShown = (isNewJob /\ ~panel1.none)]

\* the GET_JOB_DATA message of the popup
GET_JOB_DATA ==
    LET live == tryExtractJobData(page)
    IN /\ ContentFrame
       /\ UNCHANGED <<page, overlayInjected, overlayPanel, lastOpenedUrl>>
       /\ IF ~live.none
          THEN /\ currentJobData' = live
               /\ currentJobIdentity' = getJobIdentity(live)
               /\ lastExtractionSuccessAt' = now
               /\ ev' = [Ran("GET_JOB_DATA") EXCEPT
                           !.extracted = TRUE, !.job = live,
                           !.sent = notifyPopup(live).type,
                           !.sentJob = notifyPopup(live).jobData]
          ELSE /\ UNCHANGED <<currentJobData, currentJobIdentity,
                              lastExtractionSuccessAt>>
               /\ ev' = [Ran("GET_JOB_DATA") EXCEPT !.job = currentJobData]

\* SHOW_RESULT, OPEN_OVERLAY_LOADING and SHOW_ERROR: inject, open, show
InjectedAndOpen == Opened(injectOverlay(overlayPanel, currentJobData))
Shown(kind, panel) ==
    /\ overlayInjected' = TRUE
    /\ overlayPanel' = panel
    /\ ev' = [NoEv EXCEPT !.kind = kind]
    /\ UNCHANGED <<page, currentJobData, lastOpenedUrl, currentJobIdentity,
                   lastExtractionSuccessAt>>
    /\ ContentFrame
SHOW_RESULT == Shown("SHOW_RESULT", showResultInOverlay(InjectedAndOpen))
OPEN_OVERLAY_LOADING == Shown("OPEN_OVERLAY_LOADING", showLoadingState(InjectedAndOpen))
SHOW_ERROR == Shown("SHOW_ERROR", showErrorState(InjectedAndOpen))

\* the module state of a freshly injected content script
ContentInit(pages) ==
    /\ page \in pages
    /\ overlayInjected = FALSE
    /\ currentJobData = NoPosting
    /\ overlayPanel = NoPanel
    /\ lastOpenedUrl = NoUrl
    /\ currentJobIdentity = NoIdentity
    /\ lastExtractionSuccessAt = 0
    /\ ev = NoEv

\* ------------------------------------------------------- page-check timers
\* init() wires three triggers to onPageChange: the history hooks and the url
\* poll, both through schedulePageCheck, and the debounced mutation observer.
\* Timer time is counted in quanta, none of `now`: the wall clock that the
\* staleness rule reads is held still while only the order of callbacks and
\* the url each one sees are followed.
RECURSIVE Gcd(_, _)
Gcd(a, b) == IF b = 0 THEN a ELSE Gcd(b, a % b)

PageCheckDelaysMs == {400, 1200, 3000}     \* schedulePageCheck
OnlyFirstDelayMs == {400}
POLL_INTERVAL_MS == 1500                   \* setInterval(..., 1500)
DEBOUNCE_MS == 800                         \* debounce(onPageChange, 800)

\* the coarsest unit of time in which every delay is a whole number
Quantum == Gcd(Gcd(Gcd(Gcd(400, 1200), 3000), DEBOUNCE_MS), POLL_INTERVAL_MS)
Longest == 3000 \div Quantum
NoTimers == [r \in 0..Longest |-> 0]
Pending(ts) == {r \in 0..Longest : ts[r] > 0}

\* setTimeout(onPageChange, ms) for every ms of delays
setTimeouts(ts, delays) ==
    [r \in 0..Longest |-> ts[r] + IF r * Quantum \in delays THEN 1 ELSE 0]
schedulePageCheckOnce(ts) == setTimeouts(ts, OnlyFirstDelayMs)
schedulePageCheck(ts) == setTimeouts(ts, PageCheckDelaysMs)

\* the returned closure of debounce(fn, delay): clearTimeout, then setTimeout
debounce(t) == DEBOUNCE_MS \div Quantum

\* a url change not yet followed by a page check, and the first check after it
NoObs == [seen |-> FALSE, by |-> "none", hook |-> FALSE, hooks |-> 0]
Observed(by) == IF obs.seen THEN obs ELSE [obs EXCEPT !.seen = TRUE, !.by = by]

\* init() has returned: its closing onPageChange() ran before any event
InitReturned == ev # NoEv

\* location.href changes to another page's; a change made through
\* pushState/replaceState or announced by popstate runs the hook
UrlChange(pg, hook) ==
    /\ InitReturned
    /\ navs < MaxNavs
    /\ hook => obs.hooks < MaxHooks
    /\ pg.url # page.url
    /\ Navigate(pg)
    /\ navs' = navs + 1
    /\ obs' = [NoObs EXCEPT !.hook = hook,
                            !.hooks = obs.hooks + IF hook THEN 1 ELSE 0]
    /\ timers' = IF hook THEN schedulePageCheck(timers) ELSE timers
    /\ UNCHANGED <<lastUrl, poll, debounced>>

\* a childList mutation under document.body reaches the observer
Mutation ==
    /\ InitReturned
    /\ debounced' = debounce(debounced)
    /\ UNCHANGED <<lastUrl, poll, timers, navs, obs>>
    /\ UNCHANGED <<bgVars, csVars, sideVars>>

\* the debounced callback comes due
DebounceFire ==
    /\ debounced = 0
    /\ onPageChange
    /\ debounced' = -1
    /\ obs' = Observed("debounce")
    /\ UNCHANGED <<lastUrl, poll, timers, navs>>

\* a setTimeout(onPageChange) callback comes due
TimerFire ==
    /\ timers[0] > 0
    /\ onPageChange
    /\ timers' = [timers EXCEPT ![0] = @ - 1]
    /\ obs' = Observed("timer")
    /\ UNCHANGED <<lastUrl, poll, debounced, navs>>

\* the url poll's interval callback
PollFire ==
    /\ poll = 0
    /\ poll' = POLL_INTERVAL_MS \div Quantum
    /\ IF page.url # lastUrl
       THEN /\ lastUrl' = page.url
            /\ timers' = schedulePageCheck(timers)
       ELSE UNCHANGED <<lastUrl, timers>>
    /\ UNCHANGED <<debounced, navs, obs>>
    /\ UNCHANGED <<bgVars, csVars, sideVars>>

\* one quantum passes while no callback is due
Elapse ==
    /\ poll > 0
    /\ debounced # 0
    /\ timers[0] = 0
    /\ poll' = poll - 1
    /\ debounced' = IF debounced > 0 THEN debounced - 1 ELSE debounced
    /\ timers' = [r \in 0..Longest |-> IF r < Longest THEN timers[r + 1] ELSE 0]
    /\ UNCHANGED <<lastUrl, navs, obs>>
    /\ UNCHANGED <<bgVars, csVars, sideVars>>

\* init() on a page: the hooks, the observer and the poll are set up, and
\* its closing call of onPageChange is about to run
TimersInit ==
    /\ lastUrl = page.url
    /\ poll = POLL_INTERVAL_MS \div Quantum
    /\ debounced = -1
    /\ timers = [NoTimers EXCEPT ![0] = 1]
    /\ navs = 0
    /\ obs = NoObs

\* no scheduling is followed
TimersIdle ==
    /\ lastUrl = NoUrl
    /\ poll = -1
    /\ debounced = -1
    /\ timers = NoTimers
    /\ navs = 0
    /\ obs = NoObs

\* --------------------------------------------------- sidebar analysis
\* The Analyze button of the ready state and the Retry button of the error
\* state show the loading state and call requestAnalysis, which awaits the
\* stored resume and then messages the background.
\* `job` is the identity of the posting a message in flight carries
NoRequest == [pc |-> "idle", outcome |-> "none", job |-> NoIdentity]
Requests == 1..MaxRequests
Settled(r) == rq[r].pc \in {"idle", "done", "thrown"}

\* a click on a wired button of the open panel: showLoadingState(), then
\* requestAnalysis() up to its await
Click(r, content) ==
    /\ ~overlayPanel.none
    /\ overlayPanel.open
    /\ overlayPanel.content = content
    /\ Settled(r)
    /\ overlayPanel' = showLoadingState(overlayPanel)
    /\ rq' = [rq EXCEPT ![r] = [NoRequest EXCEPT !.pc = "getStoredResume"]]
    /\ ev' = [NoEv EXCEPT !.kind = "click"]
    /\ UNCHANGED <<page, overlayInjected, currentJobData, lastOpenedUrl,
                   currentJobIdentity, lastExtractionSuccessAt>>
    /\ UNCHANGED <<storedResume, NotRequests>>
ClickAnalyze(r) == Click(r, "ready")
ClickRetry(r) == Click(r, "error")

\* after `await getStoredResume()`: no resume, an error; else the message is
\* built, and reading `currentJobData.url` of null throws out of the call
ResumeGot(r) ==
    /\ rq[r].pc = "getStoredResume"
    /\ IF ~storedResume
       THEN /\ overlayPanel' = showErrorState(overlayPanel)
            /\ rq' = [rq EXCEPT ![r] = [NoRequest EXCEPT !.pc = "done", !.outcome = "no resume"]]
       ELSE IF currentJobData.none
       THEN /\ UNCHANGED overlayPanel
            /\ rq' = [rq EXCEPT ![r] = [NoRequest EXCEPT !.pc = "thrown", !.outcome = "TypeError"]]
       ELSE /\ UNCHANGED overlayPanel
            /\ rq' = [rq EXCEPT ![r] = [NoRequest EXCEPT !.pc = "sendMessage",
                                         !.job = getJobIdentity(currentJobData)]]
    /\ ev' = [NoEv EXCEPT !.kind = "requestAnalysis"]
    /\ UNCHANGED <<page, overlayInjected, currentJobData, lastOpenedUrl,
                   currentJobIdentity, lastExtractionSuccessAt>>
    /\ UNCHANGED <<storedResume, NotRequests>>

\* the sendMessage callback: lastError, a success, or a failure response
Outcomes == {"lastError", "success", "failure"}
Respond(r, outcome) ==
    /\ rq[r].pc = "sendMessage"
    /\ overlayPanel' = IF outcome = "success" THEN showResultInOverlay(overlayPanel)
                       ELSE showErrorState(overlayPanel)
    /\ rq' = [rq EXCEPT ![r] = [NoRequest EXCEPT !.pc = "done", !.outcome = outcome]]
    /\ ev' = [NoEv EXCEPT !.kind = "response"]
    /\ UNCHANGED <<page, overlayInjected, currentJobData, lastOpenedUrl,
                   currentJobIdentity, lastExtractionSuccessAt>>
    /\ UNCHANGED <<storedResume, NotRequests>>

RequestsInit(resumes) ==
    /\ storedResume \in resumes
    /\ rq = [r \in Requests |-> NoRequest]

\* ------------------------------------------------------ parseBackendError
\* A response body is kept as what JSON.parse makes of its text: a syntax
\* error, or the value parsed.  A value is null, a string, an array of items
\* or an object with or without a `detail`; an item is null or an object
\* whose `msg` is absent, a number or a string.  Text is character codes.
NoOutput == [none |-> TRUE, kind |-> "", status |-> 0, body |-> <<>>]

JsonNull == [t |-> "null", s |-> <<>>, items |-> <<>>]
JsonString(s) == [t |-> "string", s |-> s, items |-> <<>>]
JsonArray(items) == [t |-> "array", s |-> <<>>, items |-> items]
Absent == [t |-> "undefined", s |-> <<>>, items |-> <<>>]
JsonObject(detail) == [t |-> "object", detail |-> detail]
NullItem == [t |-> "null", msg |-> [t |-> "undefined", s |-> <<>>, n |-> 0]]
ItemWithout == [t |-> "object", msg |-> [t |-> "undefined", s |-> <<>>, n |-> 0]]
ItemNumber(n) == [t |-> "object", msg |-> [t |-> "number", s |-> <<>>, n |-> n]]
Item(msg) == [t |-> "object", msg |-> [t |-> "string", s |-> msg, n |-> 0]]

\* a body: its text (empty, or told apart by a name and the message in it)
\* and the value the text parses to, if it does
Body(text, valid, value) == [text |-> text, valid |-> valid, value |-> value]

\* "job description is too short"
TooShort == <<106, 111, 98, 32, 100, 101, 115, 99, 114, 105, 112, 116, 105, 111, 110, 32, 105, 115, 32, 116, 111, 111, 32, 115, 104, 111, 114, 116>>
TooShortUpper == <<74, 79, 66, 32, 68, 69, 83, 67, 82, 73, 80, 84, 73, 79, 78, 32, 73, 83, 32, 84, 79, 79, 32, 83, 72, 79, 82, 84>>
\* "Value error, Job description is too short."
TooShortInSentence == <<86, 97, 108, 117, 101, 32, 101, 114, 114, 111, 114, 44, 32, 74, 111, 98, 32, 100, 101, 115, 99, 114, 105, 112, 116, 105, 111, 110, 32, 105, 115, 32, 116, 111, 111, 32, 115, 104, 111, 114, 116, 46>>
\* "job description too short"
AlmostTooShort == <<106, 111, 98, 32, 100, 101, 115, 99, 114, 105, 112, 116, 105, 111, 110, 32, 116, 111, 111, 32, 115, 104, 111, 114, 116>>
\* "field required"
FieldRequired == <<102, 105, 101, 108, 100, 32, 114, 101, 113, 117, 105, 114, 101, 100>>

\* String.prototype.includes
includesAtStart(s, part) ==
    Len(part) <= Len(s) /\ SubSeq(s, 1, Len(part)) = part
includes(s, part) ==
    \E i \in 1..(Len(s) - Len(part) + 1) : SubSeq(s, i, i + Len(part) - 1) = part

\* String(item?.msg || ""): a number that is not 0 prints as digits
StringOfMsg(item) ==
    IF item.t = "null" THEN <<>>
    ELSE IF item.msg.t = "string" THEN item.msg.s
    ELSE IF item.msg.t = "number" /\ item.msg.n # 0 THEN <<48 + item.msg.n>>
    ELSE <<>>

ShortDescriptionMessage ==
    [none |-> FALSE, kind |-> "short description", status |-> 0, body |-> <<>>]
\* `Server error ${status}: ${bodyText}`
ServerError(status, bodyText) ==
    [none |-> FALSE, kind |-> "Server error", status |-> status, body |-> bodyText]

parseBackendError(status, body) ==
    LET \* JSON.parse(bodyText || "{}")
        parses == body.text = <<>> \/ body.valid
        parsed == IF body.text = <<>> THEN JsonObject(Absent) ELSE body.value
        \* parsed?.detail
        detail == IF parsed.t = "object" THEN parsed.detail ELSE Absent
        list == IF detail.t = "array" THEN detail.items ELSE <<>>
        hasShortDescriptionError ==
            \E i \in DOMAIN list :
                includes(toLowerCase(StringOfMsg(list[i])), TooShort)
    IN IF status = 422 /\ parses /\ hasShortDescriptionError
       THEN ShortDescriptionMessage
       ELSE ServerError(status, body.text)

\* handleAnalyzeJob on a response that is not ok:
\* `throw new Error(parseBackendError(response.status, errBody))`
NotOk ==
    /\ output = NoOutput
    /\ input.fn = "parseBackendError"
    /\ output' = parseBackendError(input.status, input.body)
    /\ UNCHANGED input
    /\ UNCHANGED NotFunctions

NoInput == [fn |-> "none"]
FunctionsIdle == input = NoInput /\ output = NoOutput

\* ------------------------------------------------------ per-tab job map
\* upsertCurrentJobForTab and clearCurrentJobForTab read the whole map, change
\* their own copy and write the whole map back; each await is a cut.
Tabs == 1..MaxTabs
NoTab == 0                  \* `sender.tab?.id` of a message that no tab sent
TabJobs == {Posting(Url("linkedin", "jobs/view", n, 0), <<65>>, <<88>>) : n \in 1..2}
NoTabJobs == [t \in Tabs |-> NoPosting]       \* `currentJobByTab = {}`
IdleHandler == [pc |-> "idle", type |-> "", tab |-> NoTab, jobData |-> NoPosting,
                map |-> NoTabJobs, success |-> FALSE]
Handlers == 1..MaxHandlers

\* the handler's own copy of the map after its assignment or delete
ChangedOwnCopy(h, map) ==
    [map EXCEPT ![tj[h].tab] = IF tj[h].type = "UPSERT_CURRENT_JOB"
                               THEN tj[h].jobData ELSE NoPosting]

\* what a tab's latest message asks the map to hold for it
Told(t, jobData) ==
    [told EXCEPT ![t] = [last |-> jobData,
                         raced |-> \E h \in Handlers : tj[h].pc # "idle" /\ tj[h].tab = t]]

\* a message (or chrome.tabs.onRemoved) starts its handler, which returns at
\* once on a missing tab id or posting and else awaits storage.local.get
StartTabHandler(h, type, t, jobData) ==
    /\ tj[h].pc = "idle"
    /\ IF t = NoTab \/ (type = "UPSERT_CURRENT_JOB" /\ jobData.none)
       THEN /\ tj' = [tj EXCEPT ![h] = [IdleHandler EXCEPT !.type = type]]
            /\ UNCHANGED told
       ELSE /\ tj' = [tj EXCEPT ![h] = [IdleHandler EXCEPT
                        !.pc = "get", !.type = type, !.tab = t, !.jobData = jobData]]
            /\ told' = Told(t, jobData)
    /\ UNCHANGED <<currentJobByTab, currentJob>>
    /\ UNCHANGED NotTabJobs
UPSERT_CURRENT_JOB(h, t, jobData) == StartTabHandler(h, "UPSERT_CURRENT_JOB", t, jobData)
CLEAR_CURRENT_JOB(h, t) == StartTabHandler(h, "CLEAR_CURRENT_JOB", t, NoPosting)
onRemoved(h, t) == StartTabHandler(h, "onRemoved", t, NoPosting)

\* storage.local.get delivers the map; the handler changes its copy and
\* awaits storage.local.set
TabJobsGet(h) ==
    /\ tj[h].pc = "get"
    /\ tj' = [tj EXCEPT ![h].pc = "set", ![h].map = ChangedOwnCopy(h, currentJobByTab)]
    /\ UNCHANGED <<currentJobByTab, currentJob, told>>
    /\ UNCHANGED NotTabJobs

\* storage.local.set writes the handler's copy; the handler returns
TabJobsSet(h) ==
    /\ tj[h].pc = "set"
    /\ currentJobByTab' = tj[h].map
    /\ currentJob' = IF tj[h].type = "UPSERT_CURRENT_JOB" THEN tj[h].jobData
                     ELSE currentJob
    /\ tj' = [tj EXCEPT ![h] = [IdleHandler EXCEPT !.type = tj[h].type, !.success = TRUE]]
    /\ UNCHANGED told
    /\ UNCHANGED NotTabJobs

\* `currentJobByTab[String(tabId)] || null`
getCurrentJobForTab(t) == IF t = NoTab THEN NoPosting ELSE currentJobByTab[t]

TabJobsInit ==
    /\ currentJobByTab = NoTabJobs
    /\ currentJob = NoPosting
    /\ tj = [h \in Handlers |-> IdleHandler]
    /\ told = [t \in Tabs |-> [last |-> NoPosting, raced |-> FALSE]]

\* ------------------------------------------------------ section extractor
\* (src/unnamed/part_000)  A text is kept as its lines, `text.split("\n")`.
allSectionHeaders == {
    <<101, 120, 112, 101, 114, 105, 101, 110, 99, 101>>,   \* experience
    <<119, 111, 114, 107, 32, 101, 120, 112, 101, 114, 105, 101, 110, 99, 101>>,   \* work experience
    <<101, 109, 112, 108, 111, 121, 109, 101, 110, 116>>,   \* employment
    <<101, 100, 117, 99, 97, 116, 105, 111, 110>>,   \* education
    <<115, 107, 105, 108, 108, 115>>,   \* skills
    <<116, 101, 99, 104, 110, 105, 99, 97, 108, 32, 115, 107, 105, 108, 108, 115>>,   \* technical skills
    <<112, 114, 111, 106, 101, 99, 116, 115>>,   \* projects
    <<99, 101, 114, 116, 105, 102, 105, 99, 97, 116, 105, 111, 110, 115>>,   \* certifications
    <<97, 99, 104, 105, 101, 118, 101, 109, 101, 110, 116, 115>>,   \* achievements
    <<115, 117, 109, 109, 97, 114, 121>>,   \* summary
    <<111, 98, 106, 101, 99, 116, 105, 118, 101>>,   \* objective
    <<99, 111, 110, 116, 97, 99, 116>>,   \* contact
    <<114, 101, 102, 101, 114, 101, 110, 99, 101, 115>>,   \* references
    <<112, 117, 98, 108, 105, 99, 97, 116, 105, 111, 110, 115>>,   \* publications
    <<108, 97, 110, 103, 117, 97, 103, 101, 115>>    \* languages
    }
\* the headings extractSkills and extractEducation look for
SkillsHeadings == {
    <<115, 107, 105, 108, 108, 115>>,   \* skills
    <<116, 101, 99, 104, 110, 105, 99, 97, 108, 32, 115, 107, 105, 108, 108, 115>>,   \* technical skills
    <<99, 111, 114, 101, 32, 99, 111, 109, 112, 101, 116, 101, 110, 99, 105, 101, 115>>,   \* core competencies
    <<116, 101, 99, 104, 110, 111, 108, 111, 103, 105, 101, 115>>,   \* technologies
    <<116, 101, 99, 104, 32, 115, 116, 97, 99, 107>>,   \* tech stack
    <<116, 111, 111, 108, 115>>,   \* tools
    <<99, 111, 109, 112, 101, 116, 101, 110, 99, 105, 101, 115>>    \* competencies
    }
EducationHeadings == {
    <<101, 100, 117, 99, 97, 116, 105, 111, 110>>,   \* education
    <<97, 99, 97, 100, 101, 109, 105, 99>>,   \* academic
    <<100, 101, 103, 114, 101, 101>>,   \* degree
    <<113, 117, 97, 108, 105, 102, 105, 99, 97, 116, 105, 111, 110>>    \* qualification
    }

startsWith(s, prefix) == Len(prefix) <= Len(s) /\ SubSeq(s, 1, Len(prefix)) = prefix

\* not in the section yet: the line is a heading, a heading and ":", or a
\* heading and " "
matchesHeading(lower, headings) ==
    \E h \in headings :
        lower = h \/ startsWith(lower, h \o <<58>>) \/ startsWith(lower, h \o <<32>>)

\* in the section: the line is another major section's heading, or it and ":"
hitsAnotherSectionExactly(lower, headings) ==
    \E h \in allSectionHeaders : lower = h /\ h \notin headings
hitsAnotherSection(lower, headings) ==
    \E h \in allSectionHeaders :
        (lower = h \/ startsWith(lower, h \o <<58>>)) /\ h \notin headings

\* lines.join("\n")
RECURSIVE join(_)
join(lines) ==
    IF lines = <<>> THEN <<>>
    ELSE IF Len(lines) = 1 THEN lines[1]
    ELSE lines[1] \o <<10>> \o join(Tail(lines))

\* the loop of extractSection from line i on
RECURSIVE sectionLines(_, _, _, _, _)
sectionLines(lines, i, inSection, acc, headings) ==
    IF i > Len(lines) THEN acc
    ELSE LET lower == Trim(toLowerCase(lines[i]))
         IN IF ~inSection
            THEN sectionLines(lines, i + 1, matchesHeading(lower, headings), acc, headings)
            ELSE IF hitsAnotherSection(lower, headings) THEN acc
            ELSE sectionLines(lines, i + 1, TRUE, Append(acc, lines[i]), headings)

\* always a string: "" when no heading matched and when the body is empty
extractSection(lines, headings) == Trim(join(sectionLines(lines, 1, FALSE, <<>>, headings)))

\* "python"
Python == <<112, 121, 116, 104, 111, 110>>

\* /\b(python|...)\b/gi on one line: the word, between characters that are
\* no word characters
WordChar == (48..57) \cup (65..90) \cup (97..122) \cup {95}
hasPython(line) ==
    LET l == toLowerCase(line)
    IN \E i \in 1..(Len(l) - Len(Python) + 1) :
          /\ SubSeq(l, i, i + Len(Python) - 1) = Python
          /\ i = 1 \/ l[i - 1] \notin WordChar
          /\ i + Len(Python) > Len(l) \/ l[i + Len(Python)] \notin WordChar

\* extractSkills as far as the choice of the text it scans, and the scan for
\* one of its keywords: `rawText = sectionText || text`
extractSkills(lines) ==
    LET sectionText == extractSection(lines, SkillsHeadings)
        wholeDocument == sectionText = <<>>
        rawText == IF wholeDocument THEN join(lines) ELSE sectionText
    IN [none |-> FALSE, kind |-> "extractSkills", absent |-> FALSE, text |-> sectionText,
        wholeDocument |-> wholeDocument, python |-> hasPython(rawText)]

\* a call of extractSection or of extractSkills
Extract ==
    /\ output = NoOutput
    /\ input.fn \in {"extractSection", "extractSkills"}
    /\ output' = IF input.fn = "extractSkills" THEN extractSkills(input.text)
                 ELSE [none |-> FALSE, kind |-> "extractSection", absent |-> FALSE,
                       text |-> extractSection(input.text, input.headings),
                       wholeDocument |-> FALSE, python |-> FALSE]
    /\ UNCHANGED input
    /\ UNCHANGED NotFunctions

\* ------------------------------------------------------ analysis history
HISTORY_CAP == 50
HistoryEntry(jobData, percentage, t) ==
    [id |-> t, jobTitle |-> jobData.title, company |-> jobData.company,
     matchPercentage |-> percentage, url |-> jobData.url, analyzedAt |-> t]
NoCall == [pc |-> "idle", jobData |-> NoPosting, percentage |-> 0, history |-> <<>>,
           calls |-> 0]

\* history.unshift(entry)
unshift(h, entry) == <<entry>> \o h
\* `if (history.length > 50) history.pop()`
shiftOverCap(h) == IF Len(h) > HISTORY_CAP THEN Tail(h) ELSE h
popOverCap(h) == IF Len(h) > HISTORY_CAP THEN SubSeq(h, 1, Len(h) - 1) ELSE h

\* saveAnalysisToHistory(jobData, result) up to `await storage.local.get`
StartSave(jobData, percentage) ==
    /\ hs.pc = "idle"
    /\ hs.calls < MaxSaves
    /\ hs' = [NoCall EXCEPT !.pc = "get", !.jobData = jobData, !.percentage = percentage,
                            !.calls = hs.calls + 1]
    /\ UNCHANGED <<history, saved>>
    /\ UNCHANGED NotHistory

\* the history arrives; the entry is built, put in front, the list capped,
\* and `await storage.local.set` begins
HistoryGet ==
    /\ hs.pc = "get"
    /\ LET entry == HistoryEntry(hs.jobData, hs.percentage, now)
       IN /\ hs' = [hs EXCEPT !.pc = "set", !.history = popOverCap(unshift(history, entry))]
          /\ saved' = Append(saved, entry)
    /\ UNCHANGED history
    /\ UNCHANGED NotHistory

\* the list is written; the call returns the entry
HistorySet ==
    /\ hs.pc = "set"
    /\ history' = hs.history
    /\ hs' = [NoCall EXCEPT !.calls = hs.calls]
    /\ UNCHANGED saved
    /\ UNCHANGED NotHistory

\* a stored history of k entries saved before, one second apart, newest first
RECURSIVE EarlierHistory(_, _)
EarlierHistory(k, t) ==
    IF k = 0 THEN <<>>
    ELSE <<HistoryEntry(Posting(Url("linkedin", "jobs/view", k, 0), <<65>>, <<88>>),
                        k, t - 1000)>>
         \o EarlierHistory(k - 1, t - 1000)
Reverse(h) == [i \in 1..Len(h) |-> h[Len(h) + 1 - i]]

HistoryInit(lengths) ==
    /\ history \in {EarlierHistory(k, now) : k \in lengths}
    /\ hs = NoCall
    /\ saved = Reverse(history)

\* no ANALYZE_AND_SHOW message was handled yet
NoShow == [pc |-> "none", job |-> NoJob, resume |-> <<>>, tabId |-> 0, log |-> <<>>]
ShowIdle == show = [p \in Procs |-> NoShow]

\* the popup once DOMContentLoaded has run: loadCurrentJob and
\* loadResumeStatus have set currentJobData and currentResume and called
\* refreshAnalyzeBtn
NoPopupJob == [none |-> TRUE, described |-> FALSE]
PopupJob(described) == [none |-> FALSE, described |-> described]
NoRun == [pc |-> "none", tab |-> FALSE]
PopupInit(jobs, resumes) ==
    /\ popup \in {[currentJobData |-> j, currentResume |-> r,
                   closed |-> FALSE, sent |-> 0] : j \in jobs, r \in resumes}
    /\ analyzeBtn = [disabled |-> ~(~popup.currentJobData.none /\ popup.currentResume)]
    /\ ra = [c \in 1..MaxClicks |-> NoRun]
    /\ rf = 0
PopupIdle == PopupInit({NoPopupJob}, {FALSE})

ExtIdle ==
    /\ TimersIdle /\ RequestsInit({FALSE}) /\ FunctionsIdle /\ TabJobsInit
    /\ HistoryInit({0}) /\ ShowIdle /\ PopupIdle

\* --------------------------------------------------------- specifications
Stale(stored, day) == stored.none \/ stored.date # day

\* the records a store can hold when the worker starts: none, or a
\* well-formed one of today or of the day before
StoredRecords(today) ==
    {NoRec} \cup {Rec(d, r) : d \in {today - 1, today}, r \in 0..DAILY_LIMIT}

EmptyCache == [k \in Keys |-> NoEntry]

InitWith(records, caches) ==
    /\ now = MS_PER_DAY
    /\ ticks = 0
    /\ rateLimit \in records
    /\ cache \in caches
    /\ proc = [p \in Procs |-> IdleProc]
    /\ ret = [p \in Procs |-> NoRet]
    /\ eff = [p \in Procs |-> NoEff]
    /\ pre = [p \in Procs |-> NoPre]
    /\ fresh = [day |-> getTodayKey(now),
                n |-> IF Stale(rateLimit, getTodayKey(now)) THEN 0
                      ELSE DAILY_LIMIT - rateLimit.remaining]
    /\ lastPut = [k \in Keys |-> [entry |-> NoEntry, first |-> -1]]
    /\ overlap = FALSE
    /\ ContentInit({BlankPage})
    /\ ExtIdle

LedgerInit == InitWith(StoredRecords(getTodayKey(MS_PER_DAY)), {EmptyCache})

LedgerStep(p) ==
    \/ RlGet(p)
    \/ RlSet(p)
    \/ RefundGet(p)
    \/ RefundSet(p)
    \/ StatusGet(p)

LedgerTick == Tick(MS_PER_DAY \div 2)

\* debit, credit and status calls whose storage steps interleave freely
LedgerNext ==
    \/ \E p \in Procs : StartDebit(p) /\ NoSnap(p)
    \/ \E p \in Procs : StartCredit(p) /\ NoSnap(p)
    \/ \E p \in Procs : StartStatus(p) /\ NoSnap(p)
    \/ \E p \in Procs : LedgerStep(p)
    \/ LedgerTick

LedgerSpec == LedgerInit /\ [][LedgerNext]_vars

\* the same calls made one after the other by a single caller
Caller == CHOOSE p \in Procs : \A q \in Procs : p <= q

LedgerSeqNext ==
    \/ StartDebit(Caller) /\ Snap(Caller)
    \/ StartCredit(Caller) /\ Snap(Caller)
    \/ StartStatus(Caller) /\ Snap(Caller)
    \/ LedgerStep(Caller)
    \/ LedgerTick

LedgerSeqSpec == LedgerInit /\ [][LedgerSeqNext]_vars

\* getCachedResult and cacheResult called one after the other, with the
\* clock passing between the calls
CacheInit == InitWith({NoRec}, {EmptyCache})

\* the payloads the cache is given
Results == {Analysis(Job(<<74>>), r) : r \in {<<99>>, <<100>>}}

CacheStep(p) ==
    \/ CacheGet(p)
    \/ CacheRemove(p)
    \/ CacheSet(p)
    \/ NullReturn(p)

CacheTick == \E d \in {1, CACHE_TTL_MS} : Tick(d)

CacheNext ==
    \/ \E u \in Urls : StartGetCached(Caller, u) /\ NoSnap(Caller)
    \/ \E u \in Urls, r \in Results : StartCacheResult(Caller, u, r) /\ NoSnap(Caller)
    \/ CacheStep(Caller)
    \/ CacheTick

CacheSpec == CacheInit /\ [][CacheNext]_vars

\* the steps of handleAnalyzeJob, for the stored backend urls (valid or
\* not) and the fetch outcomes the environment can produce
AnalyzeStep(p, urlOks, outcomes) ==
    \/ ValidationThrow(p)
    \/ CacheGet(p)
    \/ CacheRemove(p)
    \/ RlGet(p)
    \/ RlSet(p)
    \/ \E ok \in urlOks : SettingsGet(p, ok)
    \/ \E o \in outcomes : FetchSettle(p, o)
    \/ CacheSet(p)
    \/ RefundGet(p)
    \/ RefundSet(p)

\* the page urls of analyze requests: "" (no url) and "C"
PageUrls == {<<>>, <<67>>}

\* the stores the worker is started with: no record, or one of today or
\* yesterday that is exhausted, nearly exhausted or full; no cache entry, or
\* one for "C" left over from more than 24h ago
BgRecords(today) ==
    {NoRec} \cup {Rec(d, r) : d \in {today - 1, today}, r \in {0, 1, DAILY_LIMIT}}
BgCaches(t) ==
    {EmptyCache,
     [EmptyCache EXCEPT ![CacheKey(<<67>>)] =
        Entry(Analysis(Job(<<74>>), <<100>>), t - CACHE_TTL_MS - 1, <<67>>)]}

BgSeqInit == InitWith(BgRecords(getTodayKey(MS_PER_DAY)), BgCaches(MS_PER_DAY))

\* ANALYZE_JOB requests handled one after the other, any payload, with the
\* clock passing between the steps
BgSeqNext ==
    \/ \E u \in PageUrls, r \in Resumes, j \in Jobs :
          StartAnalyze(Caller, u, r, j) /\ Snap(Caller)
    \/ AnalyzeStep(Caller, BOOLEAN, FetchOutcomes)
    \/ \E d \in {FETCH_TIMEOUT_MS, MS_PER_DAY} : Tick(d)

BgSeqSpec == BgSeqInit /\ [][BgSeqNext]_vars

BgInit == BgSeqInit

\* ANALYZE_JOB requests whose steps interleave freely within one day, each
\* fetch answered in time
BgNext ==
    \/ \E p \in Procs, u \in PageUrls, r \in {<<32>>, <<99>>} :
          StartAnalyze(p, u, r, Job(<<74>>)) /\ NoSnap(p)
    \/ \E p \in Procs : AnalyzeStep(p, {TRUE}, {"ok", "network_error"})

BgSpec == BgInit /\ [][BgNext]_vars

\* the content script on a page that navigates and re-renders, with page
\* checks and messages arriving in any order and the clock passing
QuietWorker ==
    /\ now = MS_PER_DAY
    /\ ticks = 0
    /\ rateLimit = NoRec
    /\ cache = EmptyCache
    /\ proc = [p \in Procs |-> IdleProc]
    /\ ret = [p \in Procs |-> NoRet]
    /\ eff = [p \in Procs |-> NoEff]
    /\ pre = [p \in Procs |-> NoPre]
    /\ fresh = [day |-> getTodayKey(now), n |-> 0]
    /\ lastPut = [k \in Keys |-> [entry |-> NoEntry, first |-> -1]]
    /\ overlap = FALSE

ContentSpecInit == QuietWorker /\ ContentInit(Pages) /\ ExtIdle

ContentNext ==
    \/ (\E pg \in Pages : Navigate(pg)) /\ UNCHANGED tmVars
    \/ onPageChange /\ UNCHANGED tmVars
    \/ GET_JOB_DATA /\ UNCHANGED tmVars
    \/ SHOW_RESULT /\ UNCHANGED tmVars
    \/ OPEN_OVERLAY_LOADING /\ UNCHANGED tmVars
    \/ SHOW_ERROR /\ UNCHANGED tmVars
    \/ \E d \in {6000, 6001} : Tick(d)

ContentSpec == ContentSpecInit /\ [][ContentNext]_vars

\* the page-check scheduling of one content script over a page whose url
\* changes, with and without the hook, and whose DOM mutates at any moment
TimerPages ==
    {Page(Url("linkedin", "jobs/view", 1, 1), <<65>>, <<88>>),
     Page(Url("linkedin", "jobs/view", 2, 1), <<>>, <<>>)}

TimerInit ==
    /\ QuietWorker /\ ContentInit(TimerPages) /\ TimersInit
    /\ RequestsInit({FALSE}) /\ FunctionsIdle /\ TabJobsInit /\ HistoryInit({0}) /\ ShowIdle /\ PopupIdle

TimerNext ==
    \/ \E pg \in TimerPages, hook \in BOOLEAN : UrlChange(pg, hook)
    \/ Mutation
    \/ DebounceFire
    \/ TimerFire
    \/ PollFire
    \/ Elapse

TimerSpec == TimerInit /\ [][TimerNext]_vars

\* callbacks that are due run, and time passes
TimerFairSpec ==
    /\ TimerSpec
    /\ WF_vars(DebounceFire)
    /\ WF_vars(TimerFire)
    /\ WF_vars(PollFire)
    /\ WF_vars(Elapse)

\* the sidebar of one content script: the page navigates and is checked, the
\* user clicks the buttons the panel shows, the requests run
SidebarPages ==
    {Page(Url("linkedin", "jobs/view", 1, 1), <<65>>, <<88>>),
     Page(Url("linkedin", "jobs/view", 2, 1), <<65>>, <<88>>),
     Page(Url("linkedin", "jobs/view", 2, 1), <<>>, <<>>),
     BlankPage}

SidebarInit ==
    /\ QuietWorker /\ ContentInit(SidebarPages) /\ TimersIdle
    /\ RequestsInit(BOOLEAN) /\ FunctionsIdle /\ TabJobsInit /\ HistoryInit({0}) /\ ShowIdle /\ PopupIdle

SidebarNext ==
    \/ (\E pg \in SidebarPages : Navigate(pg)) /\ UNCHANGED tmVars
    \/ onPageChange /\ UNCHANGED tmVars
    \/ \E r \in Requests : ClickAnalyze(r)
    \/ \E r \in Requests : ClickRetry(r)
    \/ \E r \in Requests : ResumeGot(r)
    \/ \E r \in Requests, outcome \in Outcomes : Respond(r, outcome)

SidebarSpec == SidebarInit /\ [][SidebarNext]_vars

\* the storage callback and the response callback of a request do come
SidebarFairSpec ==
    /\ SidebarSpec
    /\ \A r \in Requests :
          /\ WF_vars(ResumeGot(r))
          /\ WF_vars(\E outcome \in Outcomes : Respond(r, outcome))

\* the backend answers the guarded call with a status that is not 2xx
ErrorStatuses == {400, 404, 422, 429, 500, 503}
ErrorBodies ==
    {Body(<<>>, FALSE, JsonNull),
     Body(<<"Internal Server Error">>, FALSE, JsonNull),
     Body(<<"null">>, TRUE, JsonNull),
     Body(<<"quoted">>, TRUE, JsonString(TooShort)),
     Body(<<"no detail">>, TRUE, JsonObject(Absent)),
     Body(<<"detail null">>, TRUE, JsonObject(JsonNull)),
     Body(<<"detail string">>, TRUE, JsonObject(JsonString(TooShort))),
     Body(<<"detail empty">>, TRUE, JsonObject(JsonArray(<<>>))),
     Body(<<"array">>, TRUE, JsonArray(<<Item(TooShort)>>)),
     Body(<<"null item">>, TRUE, JsonObject(JsonArray(<<NullItem>>))),
     Body(<<"no msg">>, TRUE, JsonObject(JsonArray(<<ItemWithout>>))),
     Body(<<"msg number">>, TRUE, JsonObject(JsonArray(<<ItemNumber(0), ItemNumber(7)>>)))}
    \cup {Body(<<"one item", m>>, TRUE, JsonObject(JsonArray(<<Item(m)>>))) :
            m \in {<<>>, TooShort, TooShortUpper, TooShortInSentence,
                   AlmostTooShort, FieldRequired}}
    \cup {Body(<<"second item", m>>, TRUE,
               JsonObject(JsonArray(<<NullItem, Item(FieldRequired), Item(m)>>))) :
            m \in {TooShortInSentence, AlmostTooShort}}

ErrorInit ==
    /\ QuietWorker /\ ContentInit({BlankPage}) /\ TimersIdle /\ RequestsInit({FALSE})
    /\ TabJobsInit /\ HistoryInit({0}) /\ ShowIdle /\ PopupIdle
    /\ input \in {[fn |-> "parseBackendError", status |-> st, body |-> b] :
                    st \in ErrorStatuses, b \in ErrorBodies}
    /\ output = NoOutput

ErrorSpec == ErrorInit /\ [][NotOk]_vars

\* the worker's per-tab job map under messages of the tabs and tab removals
TabJobsSpecInit ==
    /\ QuietWorker /\ ContentInit({BlankPage}) /\ TimersIdle /\ RequestsInit({FALSE})
    /\ FunctionsIdle /\ TabJobsInit /\ HistoryInit({0}) /\ ShowIdle /\ PopupIdle

TabJobsNext ==
    \/ \E h \in Handlers, t \in Tabs \cup {NoTab}, jobData \in TabJobs :
          UPSERT_CURRENT_JOB(h, t, jobData)
    \/ \E h \in Handlers, t \in Tabs : CLEAR_CURRENT_JOB(h, t)
    \/ \E h \in Handlers, t \in Tabs : onRemoved(h, t)
    \/ \E h \in Handlers : TabJobsGet(h)
    \/ \E h \in Handlers : TabJobsSet(h)

TabJobsSpec == TabJobsSpecInit /\ [][TabJobsNext]_vars

\* the analysis history under saves made one at a time, from every stored
\* history the cap allows, while the clock passes
HistorySpecInit ==
    /\ QuietWorker /\ ContentInit({BlankPage}) /\ TimersIdle /\ RequestsInit({FALSE})
    /\ FunctionsIdle /\ TabJobsInit /\ HistoryInit(0..HISTORY_CAP) /\ ShowIdle /\ PopupIdle

HistoryNext ==
    \/ \E jobData \in TabJobs, percentage \in {40, 90} : StartSave(jobData, percentage)
    \/ HistoryGet
    \/ HistorySet
    \/ Tick(1000)

HistorySpec == HistorySpecInit /\ [][HistoryNext]_vars

\* resumes of two or three sections, handed to extractSection and extractSkills
\* "summary"
Summary == <<115, 117, 109, 109, 97, 114, 121>>
\* "skills"
Skills == <<115, 107, 105, 108, 108, 115>>
\* "technical skills"
TechnicalSkills == <<116, 101, 99, 104, 110, 105, 99, 97, 108, 32, 115, 107, 105, 108, 108, 115>>
\* "education"
Education == <<101, 100, 117, 99, 97, 116, 105, 111, 110>>
\* "projects"
Projects == <<112, 114, 111, 106, 101, 99, 116, 115>>
\* "Python developer"
PythonDeveloper == <<80, 121, 116, 104, 111, 110, 32, 100, 101, 118, 101, 108, 111, 112, 101, 114>>
\* "  Python, Git"
PythonGit == <<32, 32, 80, 121, 116, 104, 111, 110, 44, 32, 71, 105, 116>>
\* "Led a team of 4"
LedATeam == <<76, 101, 100, 32, 97, 32, 116, 101, 97, 109, 32, 111, 102, 32, 52>>
\* "B.Tech 2020"
BTech == <<66, 46, 84, 101, 99, 104, 32, 50, 48, 50, 48>>

toUpperCase(s) == [i \in 1..Len(s) |-> IF s[i] \in 97..122 THEN s[i] - 32 ELSE s[i]]
\* a heading line of each accepted form: "Skills", "skills: 2019", "SKILLS etc"
HeadingForms == {"exact", "colon", "space"}
HeadingLine(alias, form) ==
    IF form = "exact" THEN <<alias[1] - 32>> \o Tail(alias)
    ELSE IF form = "colon" THEN alias \o <<58, 32, 50, 48, 49, 57>>
    ELSE toUpperCase(alias) \o <<32, 101, 116, 99>>

HeadingsOf(alias) == IF alias = Education THEN EducationHeadings ELSE SkillsHeadings
Bodies == {<<>>, <<LedATeam>>, <<PythonGit, LedATeam>>, <<PythonGit, <<>>, BTech, <<>>>>}
OpeningBodies == {<<>>, <<PythonDeveloper>>}

\* sections A, B, C in that order
ThreeSections ==
    {[a |-> Summary, b |-> b, c |-> c, aBody |-> aBody, bBody |-> bBody,
      cBody |-> <<BTech>>, bForm |-> bForm, cForm |-> cForm] :
        b \in {Skills, TechnicalSkills, Education},
        c \in {Skills, Education, Projects},
        aBody \in OpeningBodies, bBody \in Bodies,
        bForm \in HeadingForms, cForm \in HeadingForms}
\* sections A and C only: no heading of B
TwoSections ==
    {[a |-> Summary, b |-> <<>>, c |-> c, aBody |-> aBody, bBody |-> <<>>,
      cBody |-> <<BTech>>, bForm |-> "none", cForm |-> cForm] :
        c \in {Education, Projects}, aBody \in OpeningBodies, cForm \in HeadingForms}

LinesOf(d) ==
    <<HeadingLine(d.a, "exact")>> \o d.aBody
    \o (IF d.b = <<>> THEN <<>> ELSE <<HeadingLine(d.b, d.bForm)>> \o d.bBody)
    \o <<HeadingLine(d.c, d.cForm)>> \o d.cBody

ResumeInputs ==
    {[fn |-> "extractSection", text |-> LinesOf(d), headings |-> HeadingsOf(d.b), doc |-> d] :
        d \in {t \in ThreeSections : t.c \notin HeadingsOf(t.b)}}
    \cup {[fn |-> fn, text |-> LinesOf(d), headings |-> SkillsHeadings, doc |-> d] :
            fn \in {"extractSection", "extractSkills"},
            d \in TwoSections \cup {t \in ThreeSections : t.b = Skills /\ t.c # Skills}}

ResumeInit ==
    /\ QuietWorker /\ ContentInit({BlankPage}) /\ TimersIdle /\ RequestsInit({FALSE})
    /\ TabJobsInit /\ HistoryInit({0}) /\ ShowIdle /\ PopupIdle
    /\ input \in ResumeInputs
    /\ output = NoOutput

ResumeSpec == ResumeInit /\ [][Extract]_vars

\* ------------------------------------------------------- field extractors
\* (src/unnamed/part_000)  The text is kept as its lines, as above.
\* text.split("\n").map((l) => l.trim()).filter(Boolean)
RECURSIVE nonBlankTrimmed(_)
nonBlankTrimmed(lines) ==
    IF lines = <<>> THEN <<>>
    ELSE (IF Trim(Head(lines)) = <<>> THEN <<>> ELSE <<Trim(Head(lines))>>)
         \o nonBlankTrimmed(Tail(lines))

\* /[@|linkedin|github|phone|mobile|\d{10}]/i is one character class: "@", "|",
\* "{", "}", a digit, or one of the letters b, d, e, g, h, i, k, l, m, n, o, p, t, u in either case
ContactClassLetters == {98, 100, 101, 103, 104, 105, 107, 108, 109, 110, 111, 112, 116, 117}
ContactClass ==
    {64, 124, 123, 125} \cup (48..57)
    \cup ContactClassLetters \cup {c - 32 : c \in ContactClassLetters}
looksLikeContact(line) == \E i \in 1..Len(line) : line[i] \in ContactClass

\* /^(resume|curriculum|cv|objective|summary)/i
ResumeHeaderWords == {
    <<114, 101, 115, 117, 109, 101>>,   \* resume
    <<99, 117, 114, 114, 105, 99, 117, 108, 117, 109>>,   \* curriculum
    <<99, 118>>,   \* cv
    <<111, 98, 106, 101, 99, 116, 105, 118, 101>>,   \* objective
    <<115, 117, 109, 109, 97, 114, 121>>    \* summary
    }
startsWithHeaderWord(line) ==
    \E w \in ResumeHeaderWords : startsWith(toLowerCase(line), w)

\* the first of the first five lines that no `continue` skips, else ""
extractName(lines) ==
    LET first5 == SubSeq(nonBlankTrimmed(lines), 1, Min(5, Len(nonBlankTrimmed(lines))))
        kept == {i \in 1..Len(first5) :
                    /\ ~looksLikeContact(first5[i])
                    /\ ~(Len(first5[i]) > 50 \/ Len(first5[i]) < 2)
                    /\ ~startsWithHeaderWord(first5[i])}
    IN IF kept = {} THEN <<>>
       ELSE first5[CHOOSE i \in kept : \A j \in kept : i <= j]

\* the length of the longest run of characters of `class` that ends at i, and
\* that starts at i
RECURSIVE runLeft(_, _, _)
runLeft(s, i, class) ==
    IF i >= 1 /\ i <= Len(s) /\ s[i] \in class THEN 1 + runLeft(s, i - 1, class) ELSE 0
RECURSIVE runRight(_, _, _)
runRight(s, i, class) ==
    IF i >= 1 /\ i <= Len(s) /\ s[i] \in class THEN 1 + runRight(s, i + 1, class) ELSE 0

\* /[\w.+-]+@[\w-]+\.[\w.]+/ around the "@" at position `at`: each greedy run
\* is the longest one, since no shorter run is followed by "@" or by "."
emailAt(s, at) ==
    LET local == runLeft(s, at - 1, WordChar \cup {46, 43, 45})
        domain == runRight(s, at + 1, WordChar \cup {45})
        dot == at + domain + 1
        rest == runRight(s, dot + 1, WordChar \cup {46})
    IN IF /\ s[at] = 64 /\ local >= 1 /\ domain >= 1
          /\ dot <= Len(s) /\ s[dot] = 46 /\ rest >= 1
       THEN SubSeq(s, at - local, dot + rest) ELSE <<>>

\* text.match(...): the leftmost match, else ""
extractEmail(lines) ==
    LET s == join(lines)
        ats == {at \in 1..Len(s) : emailAt(s, at) # <<>>}
    IN IF ats = {} THEN <<>>
       ELSE emailAt(s, CHOOSE at \in ats : \A other \in ats : at <= other)

\* "react", "docker", ".js"
React == <<114, 101, 97, 99, 116>>
Docker == <<100, 111, 99, 107, 101, 114>>
DotJs == <<46, 106, 115>>

\* \b(word)\b at position i of a lower-cased text
wordAt(l, i, w) ==
    /\ i + Len(w) - 1 <= Len(l)
    /\ SubSeq(l, i, i + Len(w) - 1) = w
    /\ i = 1 \/ l[i - 1] \notin WordChar
    /\ i + Len(w) > Len(l) \/ l[i + Len(w)] \notin WordChar

\* the scan of techPatterns as far as three of its keywords, python,
\* react(?:\.js)? and docker: the set of the matches, lower-cased
techMatches(rawText) ==
    LET l == toLowerCase(rawText)
    IN {w \in {Python, Docker} : \E i \in 1..Len(l) : wordAt(l, i, w)}
       \cup (IF \E i \in 1..Len(l) : wordAt(l, i, React \o DotJs)
             THEN {React \o DotJs} ELSE {})
       \cup (IF \E i \in 1..Len(l) :
                    wordAt(l, i, React) /\ ~wordAt(l, i, React \o DotJs)
             THEN {React} ELSE {})

\* s.split(/[...]/) on the characters of `seps`: the pieces between one
\* separator (or the start) and the next (or the end)
split(s, seps) ==
    LET cuts == {0, Len(s) + 1} \cup {i \in 1..Len(s) : s[i] \in seps}
        next(i) == CHOOSE j \in cuts : j > i /\ \A k \in cuts : k > i => j <= k
        nth(k) == CHOOSE i \in cuts : Cardinality({j \in cuts : j < i}) = k - 1
    IN [k \in 1..(Cardinality(cuts) - 1) |->
          SubSeq(s, nth(k) + 1, next(nth(k)) - 1)]

\* s.replace(/[^\w\s.#+]/g, "")
keepSkillChars(s) ==
    SelectSeq(s, LAMBDA c : c \in WordChar \cup WhiteSpace \cup {46, 35, 43})

\* the comma, line, bar and tab separated items of the skills section
listedItems(sectionText) ==
    LET pieces == split(sectionText, {44, 10, 124, 9})
        cleaned == [i \in 1..Len(pieces) |-> Trim(keepSkillChars(pieces[i]))]
    IN {toLowerCase(cleaned[i]) :
          i \in {j \in 1..Len(cleaned) : Len(cleaned[j]) > 1 /\ Len(cleaned[j]) < 40}}

\* the skills of extractSkills, as a set (no input reaches the cut at 60)
skillsOf(lines) ==
    LET sectionText == extractSection(lines, SkillsHeadings)
        rawText == IF sectionText = <<>> THEN join(lines) ELSE sectionText
    IN {s \in techMatches(rawText)
             \cup (IF sectionText # <<>> THEN listedItems(sectionText) ELSE {}) :
          Len(Trim(s)) > 1}

\* the alternatives of the degree pattern, "\." left out or put in
DegreeWords == {
    <<98, 116, 101, 99, 104>>,   \* btech
    <<98, 46, 116, 101, 99, 104>>,   \* b.tech
    <<109, 116, 101, 99, 104>>,   \* mtech
    <<109, 46, 116, 101, 99, 104>>,   \* m.tech
    <<98, 101>>,   \* be
    <<98, 46, 101>>,   \* b.e
    <<109, 101>>,   \* me
    <<109, 46, 101>>,   \* m.e
    <<98, 115, 99>>,   \* bsc
    <<98, 46, 115, 99>>,   \* b.sc
    <<109, 115, 99>>,   \* msc
    <<109, 46, 115, 99>>,   \* m.sc
    <<98, 99, 97>>,   \* bca
    <<109, 99, 97>>,   \* mca
    <<98, 97, 99, 104, 101, 108, 111, 114>>,   \* bachelor
    <<109, 97, 115, 116, 101, 114>>,   \* master
    <<112, 104, 100>>,   \* phd
    <<100, 105, 112, 108, 111, 109, 97>>,   \* diploma
    <<101, 110, 103, 105, 110, 101, 101, 114, 105, 110, 103>>,   \* engineering
    <<99, 111, 109, 112, 117, 116, 101, 114, 32, 115, 99, 105, 101, 110, 99, 101>>,   \* computer science
    <<105, 110, 102, 111, 114, 109, 97, 116, 105, 111, 110, 32, 116, 101, 99, 104, 110, 111, 108, 111, 103, 121>>    \* information technology
    }
hasFourDigits(l) ==
    \E i \in 1..(Len(l) - 3) : \A k \in 0..3 : l[i + k] \in 48..57
looksLikeDegree(line) ==
    \/ \E w \in DegreeWords : includes(toLowerCase(line), w)
    \/ hasFourDigits(line)

RECURSIVE SelectLines(_, _)
SelectLines(ls, keep) ==
    IF ls = <<>> THEN <<>>
    ELSE (IF Head(ls) \in keep THEN <<Head(ls)>> ELSE <<>>) \o SelectLines(Tail(ls), keep)

extractEducation(lines) ==
    LET sectionText == extractSection(lines, EducationHeadings)
        pieces == split(sectionText, {10})
        trimmed == [i \in 1..Len(pieces) |-> Trim(pieces[i])]
        keep == {trimmed[i] : i \in {j \in 1..Len(trimmed) :
                    /\ Len(trimmed[j]) > 5 /\ Len(trimmed[j]) < 200
                    /\ looksLikeDegree(trimmed[j])}}
        kept == SelectLines(trimmed, keep)
    IN IF sectionText = <<>> THEN <<>> ELSE SubSeq(kept, 1, Min(5, Len(kept)))

\* extractResumeFields, without experienceYears, projects and certifications
extractResumeFields(lines) ==
    [none |-> FALSE, kind |-> "extractResumeFields",
     name |-> extractName(lines), email |-> extractEmail(lines),
     skills |-> skillsOf(lines), education |-> extractEducation(lines)]

ExtractFields ==
    /\ output = NoOutput
    /\ input.fn = "extractResumeFields"
    /\ output' = extractResumeFields(input.text)
    /\ UNCHANGED input
    /\ UNCHANGED NotFunctions

\* the lines the resumes of this specification are made of
\* "John Doe"
JohnDoe == <<74, 111, 104, 110, 32, 68, 111, 101>>
\* "john@x.com"
JohnEmail == <<106, 111, 104, 110, 64, 120, 46, 99, 111, 109>>
\* "Skills: Python, React, Docker"
SkillsLine == <<83, 107, 105, 108, 108, 115, 58, 32, 80, 121, 116, 104, 111, 110, 44, 32, 82, 101, 97, 99, 116, 44, 32, 68, 111, 99, 107, 101, 114>>
\* "B.Tech Computer Science 2020"
BTechLine == <<66, 46, 84, 101, 99, 104, 32, 67, 111, 109, 112, 117, 116, 101, 114, 32, 83, 99, 105, 101, 110, 99, 101, 32, 50, 48, 50, 48>>
\* "Ava Sacca": no character of the class
AvaSacca == <<65, 118, 97, 32, 83, 97, 99, 99, 97>>
\* "CV Sara": no character of the class, a header word in front
CvSara == <<67, 86, 32, 83, 97, 114, 97>>
\* "Phone 9876543210"
PhoneLine == <<80, 104, 111, 110, 101, 32, 57, 56, 55, 54, 53, 52, 51, 50, 49, 48>>
\* "  React.js, AWS | Docker"
ItemsLine == <<32, 32, 82, 101, 97, 99, 116, 46, 106, 115, 44, 32, 65, 87, 83, 32, 124, 32, 68, 111, 99, 107, 101, 114>>
\* "X"
OneLetter == <<88>>

FiveLineResume == <<JohnDoe, JohnEmail, SkillsLine, HeadingLine(Education, "exact"), BTechLine>>
FieldLines ==
    {JohnDoe, JohnEmail, SkillsLine, HeadingLine(Education, "exact"), BTechLine,
     AvaSacca, CvSara, PhoneLine, ItemsLine, OneLetter, <<>>,
     HeadingLine(Skills, "exact")}
MaxLines == 2
FieldInputs ==
    {[fn |-> "extractResumeFields", text |-> ls] :
        ls \in {FiveLineResume} \cup UNION {[1..n -> FieldLines] : n \in 1..MaxLines}}
    \cup {[fn |-> "extractResumeFields", text |-> <<a, b>> \o FiveLineResume] :
            a \in FieldLines, b \in FieldLines}

FieldsInit ==
    /\ QuietWorker /\ ContentInit({BlankPage}) /\ TimersIdle /\ RequestsInit({FALSE})
    /\ TabJobsInit /\ HistoryInit({0}) /\ ShowIdle /\ PopupIdle
    /\ input \in FieldInputs
    /\ output = NoOutput

FieldsSpec == FieldsInit /\ [][ExtractFields]_vars

\* --------------------------------------------------------- storing a resume
\* (src/unnamed/part_000, src/popup.js, src/unnamed/part_003)  A file is a
\* .txt file, kept as the text that file.text() gives; `parsed` is left out
\* of the stored record.
MIN_RESUME_CHARS == 50
MIN_MANAGER_CHARS == 30
NoResume == [t |-> "null", raw |-> <<>>]
StoredResume(raw) == [t |-> "resume", raw |-> raw]
Saved(resume) == [none |-> FALSE, error |-> FALSE, resume |-> resume]
Rejected(resume) == [none |-> FALSE, error |-> TRUE, resume |-> resume]

\* parseResume: a string is trimmed, the text of a file is taken as it is
parseResume(isFile, text) ==
    LET rawText == IF isFile THEN text ELSE Trim(text)
    IN IF rawText = <<>> \/ Len(rawText) < MIN_RESUME_CHARS
       THEN [thrown |-> TRUE, raw |-> <<>>]
       ELSE [thrown |-> FALSE, raw |-> rawText]

\* popup: handleResumeText and handleResumeFile, saveResume(raw, parsed) or
\* showParseError
handleResumeText(text, stored) ==
    IF parseResume(FALSE, text).thrown THEN Rejected(stored)
    ELSE Saved(StoredResume(parseResume(FALSE, text).raw))
handleResumeFile(text, stored) ==
    IF parseResume(TRUE, text).thrown THEN Rejected(stored)
    ELSE Saved(StoredResume(parseResume(TRUE, text).raw))
\* popup: the click on save-resume-btn
saveResumeClick(value, stored) ==
    IF Trim(value) = <<>> THEN Rejected(stored) ELSE handleResumeText(Trim(value), stored)

\* Resume Manager: processFile, and the click on save-btn
processFile(raw, stored) ==
    IF raw = <<>> \/ Len(Trim(raw)) < MIN_MANAGER_CHARS THEN Rejected(stored)
    ELSE Saved(StoredResume(raw))
saveBtnClick(value, stored) ==
    IF Trim(value) = <<>> THEN Rejected(stored)
    ELSE IF Len(Trim(value)) < MIN_MANAGER_CHARS THEN Rejected(stored)
    ELSE Saved(StoredResume(Trim(value)))

StorePaths == {"popup paste", "popup file", "manager file", "manager paste"}
StoreResume ==
    /\ output = NoOutput
    /\ input.fn \in StorePaths
    /\ output' = IF input.fn = "popup paste" THEN saveResumeClick(input.text, input.resume)
                 ELSE IF input.fn = "popup file" THEN handleResumeFile(input.text, input.resume)
                 ELSE IF input.fn = "manager file" THEN processFile(input.text, input.resume)
                 ELSE saveBtnClick(input.text, input.resume)
    /\ UNCHANGED input
    /\ UNCHANGED NotFunctions

\* texts of n letters between blanks, around the two thresholds
Letters(n) == [i \in 1..n |-> 97]
Blanks(n) == [i \in 1..n |-> 32]
MaxPad == 1
StoreTexts ==
    {Blanks(l) \o Letters(n) \o Blanks(r) :
        l \in 0..MaxPad,
        n \in {0, 1, MIN_MANAGER_CHARS - 1, MIN_MANAGER_CHARS,
               MIN_RESUME_CHARS - 1, MIN_RESUME_CHARS, MIN_RESUME_CHARS + 1},
        r \in {0, MaxPad, MIN_RESUME_CHARS - MIN_MANAGER_CHARS}}
StoreInit ==
    /\ QuietWorker /\ ContentInit({BlankPage}) /\ TimersIdle /\ RequestsInit({FALSE})
    /\ TabJobsInit /\ HistoryInit({0}) /\ ShowIdle /\ PopupIdle
    /\ input \in {[fn |-> fn, text |-> text, resume |-> resume] :
                    fn \in StorePaths, text \in StoreTexts,
                    resume \in {NoResume, StoredResume(Letters(MIN_RESUME_CHARS + 2))}}
    /\ output = NoOutput

StoreSpec == StoreInit /\ [][StoreResume]_vars

\* ------------------------------------------------------ job descriptions
\* (src/content.js)  A description is kept as its runs of one character,
\* <<[c |-> code, n |-> count], ...>>, no two neighbours of one character.
DESCRIPTION_CAP == 8000
MIN_DESCRIPTION_CHARS == 50
FALLBACK_ENOUGH_CHARS == 1200
INTERNSHALA_BODY_CHARS == 5000
Run(c, n) == [c |-> c, n |-> n]
RECURSIVE length(_)
length(t) == IF t = <<>> THEN 0 ELSE Head(t).n + length(Tail(t))

\* a + b
concat(a, b) ==
    IF a = <<>> THEN b
    ELSE IF b = <<>> THEN a
    ELSE IF a[Len(a)].c = b[1].c
    THEN SubSeq(a, 1, Len(a) - 1) \o <<Run(b[1].c, a[Len(a)].n + b[1].n)>> \o Tail(b)
    ELSE a \o b

\* t.replace(/\s+/g, " ")
RECURSIVE collapseSpaces(_)
collapseSpaces(t) ==
    IF t = <<>> THEN <<>>
    ELSE IF Head(t).c \in WhiteSpace
    THEN (IF collapseSpaces(Tail(t)) # <<>> /\ collapseSpaces(Tail(t))[1].c = 32
          THEN collapseSpaces(Tail(t))
          ELSE <<Run(32, 1)>> \o collapseSpaces(Tail(t)))
    ELSE concat(<<Head(t)>>, collapseSpaces(Tail(t)))

\* t.trim()
RECURSIVE trimStart(_)
trimStart(t) == IF t # <<>> /\ Head(t).c \in WhiteSpace THEN trimStart(Tail(t)) ELSE t
RECURSIVE trimEnd(_)
trimEnd(t) ==
    IF t # <<>> /\ t[Len(t)].c \in WhiteSpace THEN trimEnd(SubSeq(t, 1, Len(t) - 1)) ELSE t
trim(t) == trimEnd(trimStart(t))

\* t.slice(0, k)
RECURSIVE slice(_, _)
slice(t, k) ==
    IF t = <<>> \/ k <= 0 THEN <<>>
    ELSE IF Head(t).n >= k THEN <<Run(Head(t).c, k)>>
    ELSE <<Head(t)>> \o slice(Tail(t), k - Head(t).n)

\* the loop over the selectors: the longest text so far, until one of
\* 1200 characters is found
RECURSIVE longestFallback(_, _, _)
longestFallback(texts, i, fallback) ==
    IF i > Len(texts) THEN fallback
    ELSE LET txt == trim(collapseSpaces(texts[i]))
             longer == IF length(txt) > length(fallback) THEN txt ELSE fallback
         IN IF length(longer) >= FALLBACK_ENOUGH_CHARS THEN longer
            ELSE longestFallback(texts, i + 1, longer)

\* [current, fallback].filter(Boolean).join("\n\n").trim()
mergeWithFallback(current, fallback) ==
    trim(IF current = <<>> THEN fallback
         ELSE IF fallback = <<>> THEN current
         ELSE concat(concat(current, <<Run(10, 2)>>), fallback))

ensureJobDescriptionUncapped(description, texts) ==
    IF length(trim(collapseSpaces(description))) >= MIN_DESCRIPTION_CHARS
    THEN trim(collapseSpaces(description))
    ELSE mergeWithFallback(trim(collapseSpaces(description)),
                           longestFallback(texts, 1, <<>>))
\* ensureJobDescription, as the description of the posting it returns
ensureJobDescription(description, texts) ==
    LET current == trim(collapseSpaces(description))
    IN IF length(current) >= MIN_DESCRIPTION_CHARS THEN slice(current, DESCRIPTION_CAP)
       ELSE slice(mergeWithFallback(current, longestFallback(texts, 1, <<>>)),
                  DESCRIPTION_CAP)

\* a page: its site, whether isJobPageUrl holds of its URL, the innerText of
\* its description element and of the elements the fallback selectors find
\* (the last one is body)
Sites == {"linkedin", "internshala", "generic"}
\* the description each site's extractor reads off the page
linkedInDescription(pg) == trim(pg.description)
extractInternshala(pg) ==
    IF trim(pg.description) # <<>> THEN trim(pg.description)
    ELSE slice(trim(pg.texts[Len(pg.texts)]), INTERNSHALA_BODY_CHARS)
extractGeneric(pg) == slice(trim(pg.description), DESCRIPTION_CAP)

\* extractJobData: the site's extractor, then ensureJobDescription
extractJobData(pg) ==
    ensureJobDescription(IF pg.site = "internshala" THEN extractInternshala(pg)
                         ELSE extractGeneric(pg), pg.texts)

\* tryExtractJobData on a page with a title: [first |-> the description after
\* the first ensureJobDescription, description |-> the one it returns]
tryExtractDescription(pg) ==
    IF pg.site = "linkedin"
    THEN [first |-> ensureJobDescription(linkedInDescription(pg), pg.texts),
          description |-> ensureJobDescription(linkedInDescription(pg), pg.texts)]
    ELSE [first |-> extractJobData(pg),
          description |-> ensureJobDescription(extractJobData(pg), pg.texts)]

NoDescribed == [t |-> "null", description |-> <<>>]
Described(d) == [t |-> "job", description |-> d]
NoPass == [none |-> TRUE, kind |-> "none", data |-> NoDescribed, lastOk |-> FALSE,
           upsert |-> "none", sent |-> NoDescribed, response |-> NoDescribed,
           request |-> NoDescribed, passes |-> 0,
           first |-> <<>>, final |-> <<>>, before |-> <<>>]

\* what a successful pass leaves: currentJobData, the notification, and the
\* descriptions of this pass and of the pass before
Normalized(kind, pg) ==
    LET live == tryExtractDescription(pg)
        normalized == Described(ensureJobDescription(live.description, pg.texts))
    IN [output EXCEPT !.none = FALSE, !.kind = kind, !.data = normalized,
                      !.lastOk = TRUE, !.upsert = "UPSERT_CURRENT_JOB",
                      !.sent = normalized,
                      !.response = IF kind = "GET_JOB_DATA" THEN normalized ELSE @,
                      !.passes = Min(@ + 1, 2),
                      !.first = live.first, !.final = normalized.description,
                      !.before = output.final]

\* onPageChange as far as the description goes; the title may not be there
\* yet, and Date.now() may be 12 s past the last success
DescribedPageChange(titled, stale) ==
    /\ input.fn = "page"
    /\ output' =
          IF titled THEN Normalized("onPageChange", input)
          ELSE IF ~input.jobUrl
          THEN [output EXCEPT !.none = FALSE, !.kind = "onPageChange",
                              !.data = NoDescribed, !.lastOk = FALSE,
                              !.upsert = "CLEAR_CURRENT_JOB", !.sent = NoDescribed]
          ELSE IF output.lastOk /\ stale
          THEN [output EXCEPT !.none = FALSE, !.kind = "onPageChange",
                              !.data = NoDescribed,
                              !.upsert = "CLEAR_CURRENT_JOB", !.sent = NoDescribed]
          ELSE [output EXCEPT !.none = FALSE, !.kind = "onPageChange"]
    /\ UNCHANGED input
    /\ UNCHANGED NotFunctions

\* the GET_JOB_DATA handler as far as the description goes
DescribedGetJobData(titled) ==
    /\ input.fn = "page"
    /\ output' =
          IF titled THEN Normalized("GET_JOB_DATA", input)
          ELSE [output EXCEPT !.none = FALSE, !.kind = "GET_JOB_DATA",
                              !.response = output.data]
    /\ UNCHANGED input
    /\ UNCHANGED NotFunctions

\* requestAnalysis with a resume in storage and a posting held
DescribedAnalyze ==
    /\ input.fn = "page"
    /\ output.data # NoDescribed
    /\ output' = [output EXCEPT !.none = FALSE, !.kind = "ANALYZE_JOB",
                                !.request = output.data]
    /\ UNCHANGED input
    /\ UNCHANGED NotFunctions

\* descriptions of letters "d", texts of letters "f"
DescriptionTexts ==
    {<<>>, <<Run(100, 10)>>, <<Run(100, MIN_DESCRIPTION_CHARS - 1)>>,
     <<Run(100, MIN_DESCRIPTION_CHARS)>>,
     <<Run(32, 2), Run(100, 20), Run(10, 2), Run(100, 40), Run(32, 1)>>,
     <<Run(100, DESCRIPTION_CAP - 1), Run(32, 1), Run(100, 100)>>,
     <<Run(100, DESCRIPTION_CAP + 1000)>>}
FallbackTexts ==
    {<<>>, <<Run(102, 10)>>, <<Run(102, 20), Run(10, 3), Run(102, 20)>>,
     <<Run(102, FALLBACK_ENOUGH_CHARS)>>, <<Run(102, DESCRIPTION_CAP + 1000)>>}
NSelectors == 2
DescribedPages ==
    {[fn |-> "page", site |-> site, jobUrl |-> jobUrl, description |-> d, texts |-> texts] :
        site \in Sites, jobUrl \in BOOLEAN, d \in DescriptionTexts,
        texts \in [1..NSelectors -> FallbackTexts]}
DescriptionInit ==
    /\ QuietWorker /\ ContentInit({BlankPage}) /\ TimersIdle /\ RequestsInit({FALSE})
    /\ TabJobsInit /\ HistoryInit({0}) /\ ShowIdle /\ PopupIdle
    /\ input \in {pg \in DescribedPages : pg.site = "generic" => ~pg.jobUrl}
    /\ output = NoPass
DescriptionNext ==
    \/ \E titled \in BOOLEAN, stale \in BOOLEAN : DescribedPageChange(titled, stale)
    \/ \E titled \in BOOLEAN : DescribedGetJobData(titled)
    \/ DescribedAnalyze
DescriptionSpec == DescriptionInit /\ [][DescriptionNext]_vars

\* ------------------------------------------ ANALYZE_AND_SHOW (part_002)
\* what the worker sends while it handles one ANALYZE_AND_SHOW message: the
\* answer to the popup (sendResponse) and the messages to the tab
\* (safeSendToTab, whose delivery errors are swallowed)
NoMessage ==
    [dest |-> "none", tab |-> 0, type |-> "", success |-> FALSE, queued |-> FALSE,
     data |-> NoResult, fromCache |-> FALSE, error |-> "", rateLimited |-> FALSE]
sendResponse(success, queued, error) ==
    [NoMessage EXCEPT !.dest = "popup", !.success = success, !.queued = queued,
                      !.error = error]
safeSendToTab(tabId, message) == [message EXCEPT !.dest = "tab", !.tab = tabId]

\* handleAnalyzeAndShow: `if (tabId) safeSendToTab(...)`
sendIfTab(log, tabId, message) ==
    IF tabId # 0 THEN Append(log, safeSendToTab(tabId, message)) ELSE log

\* the router: `!message.payload?.jobData || !message.payload?.resumeText`
payloadMissing(resume, job) == job.none \/ resume = <<>>

\* the message handleAnalyzeAndShow ends with: SHOW_RESULT for a response
\* with success, SHOW_ERROR for any other response and for a thrown error
terminalAlwaysResult(r) == [NoMessage EXCEPT !.type = "SHOW_RESULT", !.data = r.data]
terminal(r) ==
    IF r.tag = "return" /\ r.success
    THEN [NoMessage EXCEPT !.type = "SHOW_RESULT", !.data = r.data,
                           !.fromCache = r.fromCache]
    ELSE [NoMessage EXCEPT !.type = "SHOW_ERROR", !.error = r.error,
                           !.rateLimited = r.rateLimited]

\* a slot takes a new message when its last one is dealt with
ShowFree(p) == Free(p) /\ show[p].pc # "queued"

\* the router's ANALYZE_AND_SHOW case up to its return.  A payload without
\* jobData or resumeText is refused.  Otherwise handleAnalyzeAndShow runs to
\* its first await (the loading message, then handleAnalyzeJob to its own
\* first await) and the popup is answered.
ANALYZE_AND_SHOW(p, url, resume, job, tabId) ==
    /\ ShowFree(p)
    /\ IF payloadMissing(resume, job)
       THEN /\ show' = [show EXCEPT ![p] =
                          [pc |-> "refused", job |-> job, resume |-> resume,
                           tabId |-> tabId,
                           log |-> <<sendResponse(FALSE, FALSE, "missing_payload")>>]]
            /\ UNCHANGED <<bgVars, NotShow>>
       ELSE /\ fresh.n < MaxFresh
            /\ Enter(p, AnalyzeFrame(url, resume, job))
            /\ NoSnap(p)
            /\ UNCHANGED lastPut
            /\ show' = [show EXCEPT ![p] =
                          [pc |-> "queued", job |-> job, resume |-> resume,
                           tabId |-> tabId,
                           log |-> Append(sendIfTab(<<>>, tabId,
                                     [NoMessage EXCEPT !.type = "OPEN_OVERLAY_LOADING"]),
                                     sendResponse(TRUE, TRUE, ""))]]

\* handleAnalyzeAndShow resumes with what handleAnalyzeJob returned or threw
ShowSettle(p) ==
    /\ show[p].pc = "queued"
    /\ proc[p].pc = "done"
    /\ show' = [show EXCEPT ![p].pc = "settled",
                            ![p].log = sendIfTab(@, show[p].tabId, terminal(ret[p]))]
    /\ UNCHANGED <<bgVars, NotShow>>

\* the payloads: resumeText "" (or absent), " " and "c"; jobData absent,
\* without a title and titled; tabId absent (0) or 7
ShowResumes == {<<>>, <<32>>, <<99>>}
TabIds == {0, 7}

ShowInit == BgSeqInit

\* ANALYZE_AND_SHOW messages handled one after the other, any payload, with
\* the clock passing between the steps
ShowNext ==
    \/ \E u \in PageUrls, r \in ShowResumes, j \in Jobs, t \in TabIds :
          ANALYZE_AND_SHOW(Caller, u, r, j, t)
    \/ AnalyzeStep(Caller, BOOLEAN, FetchOutcomes)
    \/ ShowSettle(Caller)
    \/ Tick(FETCH_TIMEOUT_MS)

ShowSpec == ShowInit /\ [][ShowNext]_vars

\* every storage call and every fetch settles (the fetch at its timeout at
\* the latest), and a settled promise's continuation runs
ShowFairSpec ==
    /\ ShowSpec
    /\ WF_vars(AnalyzeStep(Caller, BOOLEAN, FetchOutcomes))
    /\ WF_vars(ShowSettle(Caller))

\* ------------------------------------------------ the popup (src/popup.js)
\* refreshAnalyzeBtn: `btn.disabled = !(currentJobData && currentResume)`
refreshAnalyzeBtn(btn, pp) ==
    [disabled |-> ~(~pp.currentJobData.none /\ pp.currentResume)]

\* renderCurrentJob(job): a titled job is stored, anything else stores null
\* (an untitled job is given as none here); both branches end with
\* refreshAnalyzeBtn()
renderCurrentJob(pp, job) == [pp EXCEPT !.currentJobData = job]

\* the jobs a tab can answer with: none, one whose description is still
\* shorter than 50 characters, one with a full description
PopupJobs == {NoPopupJob, PopupJob(FALSE), PopupJob(TRUE)}

PopupFrame == UNCHANGED NotPopup

\* a storage change of currentJobByTab or currentJob, a window focus or a
\* visibilitychange to visible: refreshFromActiveTab starts and awaits the
\* active tab's job
refreshFromActiveTab ==
    /\ ~popup.closed
    /\ rf < MaxRefresh
    /\ rf' = rf + 1
    /\ UNCHANGED <<analyzeBtn, popup, ra>>
    /\ PopupFrame

\* refreshFromActiveTab: the job arrived (from the content script, or from
\* the worker's map, or null) and renderCurrentJob is called with it
RefreshSettle(job) ==
    /\ ~popup.closed
    /\ rf > 0
    /\ rf' = rf - 1
    /\ popup' = renderCurrentJob(popup, job)
    /\ analyzeBtn' = refreshAnalyzeBtn(analyzeBtn, popup')
    /\ UNCHANGED ra
    /\ PopupFrame

\* runAnalysis, the catch block: the button is enabled again
Fail(c) ==
    /\ analyzeBtn' = [disabled |-> FALSE]
    /\ ra' = [ra EXCEPT ![c].pc = "failed"]
    /\ UNCHANGED <<popup, rf>>

\* a click on the button (a disabled button gets none): runAnalysis up to
\* its first await.  Without a job or a resume it shows a toast and returns;
\* otherwise it disables the button and queries the active tab.
runAnalysis(c) ==
    /\ ~popup.closed
    /\ ~analyzeBtn.disabled
    /\ ra[c].pc = "none"
    /\ \A d \in 1..(c - 1) : ra[d].pc # "none"
    /\ IF popup.currentJobData.none \/ ~popup.currentResume
       THEN /\ ra' = [ra EXCEPT ![c].pc = "toast"]
            /\ UNCHANGED analyzeBtn
       ELSE /\ ra' = [ra EXCEPT ![c].pc = "query"]
            /\ analyzeBtn' = [disabled |-> TRUE]
    /\ UNCHANGED <<popup, rf>>
    /\ PopupFrame

\* chrome.tabs.query resolves: without an active tab runAnalysis throws,
\* else it asks the tab for fresh job data
TabQueried(c, tab) ==
    /\ ~popup.closed
    /\ ra[c].pc = "query"
    /\ IF tab
       THEN /\ ra' = [ra EXCEPT ![c].pc = "fresh", ![c].tab = TRUE]
            /\ UNCHANGED <<analyzeBtn, popup, rf>>
       ELSE Fail(c)
    /\ PopupFrame

\* getFreshJobDataFromTab resolves: a titled job replaces currentJobData;
\* then getSettings()
FreshJobData(c, job) ==
    /\ ~popup.closed
    /\ ra[c].pc = "fresh"
    /\ popup' = IF job.none THEN popup ELSE [popup EXCEPT !.currentJobData = job]
    /\ ra' = [ra EXCEPT ![c].pc = "verify"]
    /\ UNCHANGED <<analyzeBtn, rf>>
    /\ PopupFrame

\* getSettings and verifyBackendUrl resolve: an unverified backend and a
\* description shorter than 50 characters throw, else ANALYZE_AND_SHOW is sent
Verified(c, ok) ==
    /\ ~popup.closed
    /\ ra[c].pc = "verify"
    /\ IF ok /\ ~popup.currentJobData.none /\ popup.currentJobData.described
       THEN /\ popup' = [popup EXCEPT !.sent = @ + 1]
            /\ ra' = [ra EXCEPT ![c].pc = "sent"]
            /\ UNCHANGED <<analyzeBtn, rf>>
       ELSE Fail(c)
    /\ PopupFrame

\* the worker's answer arrives: lastError or an answer without success
\* throws, else window.close is scheduled 200 ms ahead
Answered(c, success) ==
    /\ ~popup.closed
    /\ ra[c].pc = "sent"
    /\ IF success
       THEN /\ ra' = [ra EXCEPT ![c].pc = "closing"]
            /\ UNCHANGED <<analyzeBtn, popup, rf>>
       ELSE Fail(c)
    /\ PopupFrame

\* the 200 ms timer fires: window.close()
CloseWindow(c) ==
    /\ ~popup.closed
    /\ ra[c].pc = "closing"
    /\ popup' = [popup EXCEPT !.closed = TRUE]
    /\ ra' = [ra EXCEPT ![c].pc = "closed"]
    /\ UNCHANGED <<analyzeBtn, rf>>
    /\ PopupFrame

PopupSpecInit ==
    /\ QuietWorker /\ ContentInit({BlankPage}) /\ TimersIdle /\ RequestsInit({FALSE})
    /\ FunctionsIdle /\ TabJobsInit /\ HistoryInit({0}) /\ ShowIdle
    /\ PopupInit(PopupJobs, BOOLEAN)

PopupNext ==
    \/ refreshFromActiveTab
    \/ \E j \in PopupJobs : RefreshSettle(j)
    \/ \E c \in 1..MaxClicks : runAnalysis(c)
    \/ \E c \in 1..MaxClicks, tab \in BOOLEAN : TabQueried(c, tab)
    \/ \E c \in 1..MaxClicks, j \in PopupJobs : FreshJobData(c, j)
    \/ \E c \in 1..MaxClicks, ok \in BOOLEAN : Verified(c, ok)
    \/ \E c \in 1..MaxClicks, s \in BOOLEAN : Answered(c, s)
    \/ \E c \in 1..MaxClicks : CloseWindow(c)

PopupSpec == PopupSpecInit /\ [][PopupNext]_vars

\* ------------------------------------------------------------------ claims
Today == getTodayKey(now)
Done(p, kind) == proc[p].pc = "done" /\ proc[p].kind = kind

\* C1: whatever way the read and write steps of concurrent debits and
\* credits interleave, a stored rateLimit record has an integer remaining
\* between 0 and DAILY_LIMIT.
C1_RemainingWithinBounds ==
    rateLimit.none \/ rateLimit.remaining \in 0..DAILY_LIMIT

\* a credit that read a full ledger is about to write while debits that ran
\* in between have emptied the stored record
C1_Witness ==
    \E p \in Procs :
        /\ proc[p].pc = "refund_set"
        /\ proc[p].rl.remaining = DAILY_LIMIT
        /\ ~rateLimit.none
        /\ rateLimit.remaining = 0
        /\ rateLimit.date = proc[p].rl.date

\* the caller's last two calls were a debit and then a credit, both begun
\* and ended on the same day
DebitThenCredit(p) ==
    /\ Done(p, "credit")
    /\ pre[p].prevKind = "debit"
    /\ pre[p].prevDay = pre[p].day
    /\ pre[p].day = Today

\* C2 as stated: a debit immediately followed by a credit leaves the
\* remaining that getRateLimitStatus reports as it was before the debit,
\* for every stored record.
C2_Original ==
    DebitThenCredit(Caller) =>
        StatusRemaining(rateLimit, Today) = pre[Caller].prevBefore

\* C2 amended: the same, when the debit returned true.
C2_DebitCreditRestores ==
    (DebitThenCredit(Caller) /\ pre[Caller].prevOk) =>
        StatusRemaining(rateLimit, Today) = pre[Caller].prevBefore

\* a successful debit that started from a full effective allowance was
\* followed by a credit
C2_Witness ==
    /\ DebitThenCredit(Caller)
    /\ pre[Caller].prevOk
    /\ pre[Caller].prevBefore = DAILY_LIMIT
    /\ pre[Caller].effective = DAILY_LIMIT - 1

\* C6 (debit): a debit that finds a record of another day, or none, returns
\* true and stores {date: today, remaining: DAILY_LIMIT - 1}.
C6_DebitResets ==
    (Done(Caller, "debit") /\ Stale(pre[Caller].stored, pre[Caller].day)) =>
        /\ ret[Caller].success
        /\ ~rateLimit.none
        /\ rateLimit.remaining = DAILY_LIMIT - 1
        /\ rateLimit.date \in pre[Caller].day..Today

\* C6 (status): getRateLimitStatus then reports DAILY_LIMIT and leaves the
\* stored record as it was.
C6_StatusReadsOnly ==
    Done(Caller, "status") =>
        /\ rateLimit = pre[Caller].stored
        /\ Stale(pre[Caller].stored, pre[Caller].day) =>
              ret[Caller].remaining = DAILY_LIMIT

\* C6 (credit): a credit that finds a record of another day leaves the
\* store unchanged.
C6_CreditSkipsOtherDay ==
    (Done(Caller, "credit") /\ Stale(pre[Caller].stored, pre[Caller].day)) =>
        rateLimit = pre[Caller].stored

\* C6: lazy day rollover.  The three cases above hold of every completed
\* call, and the passing of time alone never changes the stored record.
C6_LazyRollover ==
    /\ [](C6_DebitResets /\ C6_StatusReadsOnly /\ C6_CreditSkipsOtherDay)
    /\ [][now' # now => rateLimit' = rateLimit]_vars

\* a debit found yesterday's exhausted record and succeeded
C6_Witness ==
    /\ Done(Caller, "debit")
    /\ pre[Caller].stored = Rec(pre[Caller].day - 1, 0)
    /\ ret[Caller].success
    /\ ticks > 0

\* the key and the latest cacheResult call of the url slot p was called with
KeyOf(p) == CacheKey(proc[p].url)
LatestPut(p) == lastPut[KeyOf(p)].entry
ReadDone(p) ==
    /\ Done(p, "getCached")
    /\ proc[p].url # <<>>
    /\ ~LatestPut(p).none

\* the read returned the entry's result and the entry is still stored
Served(p) ==
    /\ ret[p].tag = "return"
    /\ ret[p].data = LatestPut(p).result
    /\ cache[KeyOf(p)] = LatestPut(p)
\* the read returned null and the entry is gone from the store
Evicted(p) ==
    /\ ret[p].tag = "return"
    /\ ret[p].data = NoResult
    /\ cache[KeyOf(p)].none

\* C7 as stated: an entry written at T is served by every read before
\* T + 24h and is absent and removed for every read at T + 24h or later.
C7_Original ==
    ReadDone(Caller) =>
        IF ret[Caller].at < LatestPut(Caller).timestamp + CACHE_TTL_MS
        THEN Served(Caller) ELSE Evicted(Caller)

\* C7 amended: an entry written at T is served by every read up to and
\* including T + 24h, and is absent and removed for every read after T + 24h.
C7_CacheTtl ==
    ReadDone(Caller) =>
        IF ret[Caller].at <= LatestPut(Caller).timestamp + CACHE_TTL_MS
        THEN Served(Caller) ELSE Evicted(Caller)

\* a read one millisecond after T + 24h found the entry expired
C7_Witness ==
    /\ ReadDone(Caller)
    /\ ret[Caller].at = LatestPut(Caller).timestamp + CACHE_TTL_MS + 1
    /\ Evicted(Caller)

\* C8: a read before expiry returns the result of the latest cacheResult
\* call for the url's key, and a completed cacheResult leaves exactly its
\* own entry, stamped with the time of that call, under the key.
C8_PutGetRoundTrip ==
    /\ (ReadDone(Caller) /\ ~isExpired(LatestPut(Caller), ret[Caller].at)) =>
          /\ ret[Caller].tag = "return"
          /\ ret[Caller].data = LatestPut(Caller).result
    /\ (Done(Caller, "cacheResult") /\ proc[Caller].url # <<>>) =>
          cache[KeyOf(Caller)] = LatestPut(Caller)

\* the key was put twice, under two colliding urls; the read comes more
\* than 24h after the first put and is served the second put's result
C8_Witness ==
    /\ ReadDone(Caller)
    /\ ret[Caller].at > lastPut[KeyOf(Caller)].first + CACHE_TTL_MS
    /\ LatestPut(Caller).url # proc[Caller].url
    /\ ret[Caller].data = LatestPut(Caller).result
    /\ ~ret[Caller].data.none

\* ------------------------------------------------------------------ C3
\* the request of the caller passed both validations
PassedValidation(p) == ret[p].error \notin {"resume_required", "job_missing"}
\* the request found today's record exhausted and nothing servable cached
Exhausted(p) ==
    /\ Done(p, "analyze") /\ PassedValidation(p)
    /\ pre[p].day = Today
    /\ ~pre[p].stored.none /\ pre[p].stored.date = pre[p].day
    /\ pre[p].stored.remaining <= 0
    /\ (pre[p].cached.none \/ isExpired(pre[p].cached, pre[p].at))

\* C3: when today's quota record has remaining <= 0 and the url has no
\* unexpired cache entry, a request that passed validation returns
\* {success: false, rateLimited: true}; it issued no fetch, wrote neither the
\* rateLimit record (which is what it was) nor a cache entry
C3_RateLimitedShortCircuit ==
    Exhausted(Caller) =>
        /\ ret[Caller].tag = "return"
        /\ ~ret[Caller].success /\ ret[Caller].rateLimited
        /\ eff[Caller].fetches = 0
        /\ eff[Caller].rlWrites = 0
        /\ eff[Caller].cacheWrites = 0
        /\ rateLimit = pre[Caller].stored

\* a refused request that first dropped an expired cache entry
C3_Witness ==
    /\ Exhausted(Caller)
    /\ ret[Caller].rateLimited
    /\ ~pre[Caller].cached.none
    /\ eff[Caller].cacheRemoves = 1
    /\ rateLimit.remaining = 0

\* ------------------------------------------------------------------ C4
GuardedFailures == {"network_error", "timeout", "http_error", "bad_json",
                    "backend_url_invalid"}
\* the request was debited, its guarded call failed, and the failure was
\* delivered on the day the request began
FailedSameDay(p) ==
    /\ Done(p, "analyze")
    /\ ret[p].tag = "throw" /\ ret[p].error \in GuardedFailures
    /\ pre[p].day = Today

\* C4 as stated: after the failed request the stored remaining equals the
\* stored remaining before it
C4_Original ==
    (FailedSameDay(Caller) /\ ~pre[Caller].stored.none) =>
        rateLimit.remaining = pre[Caller].stored.remaining

\* C4: for a single request debited and failed within one day, both ledger
\* writes (debit, then credit) are applied when the failure is delivered, the
\* remaining quota that getRateLimitStatus reports equals the one reported
\* before the request, and no cache entry was written
C4_RefundOnFailure ==
    FailedSameDay(Caller) =>
        /\ eff[Caller].rlWrites = 2
        /\ ~rateLimit.none /\ rateLimit.date = Today
        /\ StatusRemaining(rateLimit, Today) = pre[Caller].effective
        /\ eff[Caller].cacheWrites = 0

\* a timed-out request that started from a record of an earlier day
C4_Witness ==
    /\ FailedSameDay(Caller)
    /\ ret[Caller].error = "timeout"
    /\ ~pre[Caller].stored.none /\ pre[Caller].stored.date # Today
    /\ rateLimit.remaining = DAILY_LIMIT

SecondPass ==
    /\ ev.kind = "onPageChange" /\ ev.extracted /\ ~ev.dataBefore.none
    /\ page = Page(ev.job.url, ev.job.title, ev.job.company)

SameViewId(u1, u2) == u1.viewId # 0 /\ u1.viewId = u2.viewId
SameCurrentJobId(u1, u2) == u1.currentJobId # 0 /\ u1.currentJobId = u2.currentJobId

\* what C9 says of the second pass
SecondPassIsSameJob ==
    /\ currentJobIdentity = ev.idBefore
    /\ currentJobIdentity.tag \in {"li_view", "li_search"}
    /\ currentJobData = tryExtractJobData(page)
    /\ ev.sent = "UPSERT_CURRENT_JOB" /\ ev.sentJob = currentJobData
    /\ ~ev.readyShown
    /\ ev.hadPanel => /\ overlayPanel.content = ev.contentBefore
                      /\ overlayPanel.button = ev.buttonBefore

\* C9 as stated: two passes whose urls carry the same job-view id or the
\* same currentJobId parameter are the same job
C9_Original ==
    (/\ SecondPass
     /\ \/ SameViewId(ev.dataBefore.url, currentJobData.url)
        \/ SameCurrentJobId(ev.dataBefore.url, currentJobData.url))
    => SecondPassIsSameJob

\* C9: two successful passes whose urls carry the same job-view id, or carry
\* no job-view id and the same currentJobId parameter, have the same
\* li_view / li_search identity whatever the title and company are; the
\* second pass stores and notifies the new posting, does not call
\* showReadyState and leaves the panel content and the analyzed flag alone
C9_NativeIdAuthoritative ==
    (/\ SecondPass
     /\ \/ SameViewId(ev.dataBefore.url, currentJobData.url)
        \/ /\ ev.dataBefore.url.viewId = 0 /\ currentJobData.url.viewId = 0
           /\ SameCurrentJobId(ev.dataBefore.url, currentJobData.url))
    => SecondPassIsSameJob

\* the title changed under the same job-view id while a result was displayed
C9_Witness ==
    /\ SecondPass
    /\ SameViewId(ev.dataBefore.url, currentJobData.url)
    /\ ev.dataBefore.title # currentJobData.title
    /\ ev.contentBefore = "result"
    /\ overlayPanel.content = "result"
    /\ ~ev.readyShown

\* ------------------------------------------------------------------ C10
\* C10: whenever a successful extraction, in onPageChange or in the
\* GET_JOB_DATA handler, changes currentJobIdentity from the identity of one
\* job to that of another while the overlay exists,
\* the sidebar is reset to the ready state with the analyzed flag not set
C10_NewJobEventOnIdentityChange ==
    (/\ ev.kind \in {"onPageChange", "GET_JOB_DATA"}
     /\ ev.extracted
     /\ ev.hadPanel
     /\ ev.idBefore # NoIdentity
     /\ currentJobIdentity # ev.idBefore)
    => /\ ev.readyShown
       /\ overlayPanel.content = "ready"
       /\ overlayPanel.button # "true"

\* ------------------------------------------------------------------ C11
\* the last handler run was an onPageChange pass whose extraction failed
FailedPass == ev.kind = "onPageChange" /\ ~ev.extracted

\* C11: after an onPageChange pass whose extraction failed on a url that is
\* no job-page url, currentJobData is null, currentJobIdentity is empty,
\* lastExtractionSuccessAt is 0 and CLEAR_CURRENT_JOB was sent, whatever the
\* state before the pass was
C11_NavigatedAwayClears ==
    (FailedPass /\ ~isJobPageUrl(ev.url)) =>
        /\ currentJobData = NoPosting
        /\ currentJobIdentity = NoIdentity
        /\ lastExtractionSuccessAt = 0
        /\ ev.sent = "CLEAR_CURRENT_JOB"

\* a tracked posting was dropped on leaving the job pages
C11_Witness ==
    /\ FailedPass /\ ~isJobPageUrl(ev.url)
    /\ ~ev.dataBefore.none
    /\ currentJobData.none
    /\ ev.sent = "CLEAR_CURRENT_JOB"

\* ------------------------------------------------------------------ C12
\* a step of onPageChange: the only handler that leaves "onPageChange" in ev
PageChangeStep == ev'.kind = "onPageChange" /\ now' = now /\ page' = page

\* C12: an onPageChange pass whose extraction fails on a job-page url leaves
\* posting, identity and timestamp alone and sends nothing when no success is
\* recorded or the recorded one is at most 12 s old, and clears posting and
\* identity and sends CLEAR_CURRENT_JOB when it is more than 12 s old
C12_StalenessRule ==
    [][(/\ PageChangeStep
        /\ tryExtractJobData(page).none
        /\ isJobPageUrl(page.url))
       => IF lastExtractionSuccessAt # 0 /\ now - lastExtractionSuccessAt > 12000
          THEN /\ currentJobData' = NoPosting
               /\ currentJobIdentity' = NoIdentity
               /\ ev'.sent = "CLEAR_CURRENT_JOB"
          ELSE /\ UNCHANGED <<currentJobData, currentJobIdentity,
                              lastExtractionSuccessAt>>
               /\ ev'.sent = "none"]_vars

\* a tracked posting was dropped on a job page 12001 ms after its extraction
C12_Witness ==
    /\ FailedPass /\ isJobPageUrl(ev.url)
    /\ ~ev.dataBefore.none
    /\ currentJobData.none
    /\ ev.sent = "CLEAR_CURRENT_JOB"
    /\ now - lastExtractionSuccessAt = 12001

\* ------------------------------------------------------------------ C13
\* C13: every onPageChange pass whose extraction succeeds stores the
\* extracted posting, stamps lastExtractionSuccessAt with the current time and
\* sends UPSERT_CURRENT_JOB carrying that posting, whether or not the
\* identity changed
C13_SuccessTransition ==
    [][(PageChangeStep /\ ~tryExtractJobData(page).none)
       => /\ currentJobData' = tryExtractJobData(page)
          /\ lastExtractionSuccessAt' = now
          /\ ev'.sent = "UPSERT_CURRENT_JOB"
          /\ ev'.sentJob = tryExtractJobData(page)]_vars

\* a later pass replaced the posting under an unchanged identity
C13_Witness ==
    /\ ev.kind = "onPageChange" /\ ev.extracted
    /\ ~ev.dataBefore.none
    /\ currentJobIdentity = ev.idBefore
    /\ currentJobData # ev.dataBefore
    /\ lastExtractionSuccessAt = now
    /\ ticks > 0
    /\ ev.sent = "UPSERT_CURRENT_JOB" /\ ev.sentJob = currentJobData

\* ------------------------------------------------------------------ C14
\* a step in which a url change is detected: the poll finds location.href
\* different from its lastUrl, or a url change runs the history hook
DetectedStep ==
    \/ poll = 0 /\ poll' # 0 /\ lastUrl' # lastUrl
    \/ navs' = navs + 1 /\ obs'.hook

\* the url changed and no page check has run since
Unobserved == ~obs.seen /\ navs > 0

\* C14 as stated: every change of the page url is eventually followed by an
\* onPageChange run that observes the new url, whatever raised or did not
\* raise the change.
C14_Original == Unobserved ~> obs.seen

\* C14: every detected url change schedules a page check at each of 400, 1200
\* and 3000 ms; and a url change that ran the history hook, or that leaves
\* location.href different from the url the poll last recorded, is eventually
\* followed by an onPageChange run unless the url changes again first, with
\* or without mutations, however often they restart the debounce.
C14_ReExtraction ==
    /\ [][DetectedStep =>
            \A ms \in PageCheckDelaysMs :
                timers'[ms \div Quantum] = timers[ms \div Quantum] + 1]_vars
    /\ \A n \in 1..MaxNavs :
          (navs = n /\ ~obs.seen /\ (obs.hook \/ page.url # lastUrl))
              ~> (obs.seen \/ navs # n)

\* a url change that ran no hook was first observed by a poll-scheduled
\* check, while mutations were holding the debounced callback back
C14_Witness ==
    /\ navs = 1
    /\ ~obs.hook
    /\ obs.seen
    /\ obs.by = "timer"
    /\ debounced > 0
    /\ ev.kind = "onPageChange"
    /\ ev.url = page.url
    /\ lastUrl = page.url

\* ------------------------------------------------------------------ C15
Loading == ~overlayPanel.none /\ overlayPanel.content = "loading"
Resolved == ~overlayPanel.none /\ overlayPanel.content \in {"result", "error"}

\* C15: every analysis request started from the sidebar, in every reachable
\* state of the content script including currentJobData = null, eventually
\* leaves the loading state showing a result or an error message.
C15_SidebarAnalysisResolves == Loading ~> Resolved

\* ------------------------------------------------------------------ C16
\* the body is a JSON object whose detail is a list with an item whose msg
\* is a string that holds the phrase in some letter case
MentionsTooShort(body) ==
    /\ body.valid
    /\ body.value.t = "object"
    /\ body.value.detail.t = "array"
    /\ \E i \in DOMAIN body.value.detail.items :
          LET item == body.value.detail.items[i]
          IN /\ item.msg.t = "string"
             /\ \E k \in 0..Len(item.msg.s) :
                   /\ k + Len(TooShort) <= Len(item.msg.s)
                   /\ \A j \in 1..Len(TooShort) :
                         item.msg.s[k + j] \in {TooShort[j], TooShortUpper[j]}

\* C16: a 422 whose body's detail list has an item whose msg mentions "job
\* description is too short" in any letter case surfaces the scroll-and-retry
\* message; every other status or body surfaces "Server error <status>: <body>".
C16_ShortDescriptionSpecialCase ==
    ~output.none =>
        output = IF input.status = 422 /\ MentionsTooShort(input.body)
                 THEN ShortDescriptionMessage
                 ELSE ServerError(input.status, input.body.text)

\* a 422 whose second detail item has the phrase capitalised inside a sentence
C16_Witness ==
    /\ output = ShortDescriptionMessage
    /\ input.status = 422
    /\ Len(input.body.value.detail.items) > 1
    /\ ~includes(StringOfMsg(input.body.value.detail.items[3]), TooShort)

\* ------------------------------------------------------------------ C17
NoHandlerInFlight == \A h \in Handlers : tj[h].pc = "idle"

\* C17: once every handler has returned, getCurrentJobForTab(t) is, for every
\* tab t whose messages were handled one at a time, the posting of t's last
\* upsert if no clear or removal of t followed it, and null otherwise,
\* whatever the handlers of other tabs did in between.
C17_PerTabJobMap ==
    NoHandlerInFlight =>
        \A t \in Tabs : ~told[t].raced => getCurrentJobForTab(t) = told[t].last

\* ------------------------------------------------------------------ C18
\* the n most recent of the entries ever saved, newest first
MostRecent(n) == [i \in 1..n |-> saved[Len(saved) + 1 - i]]

\* C18: after saves made one at a time from a history of at most 50 entries,
\* the stored history has at most 50 entries, is ordered newest first, and
\* is exactly the most recent min(50, n) of the n entries ever saved.
C18_HistoryCapAndOrder ==
    hs.pc = "idle" =>
        /\ Len(history) <= HISTORY_CAP
        /\ \A i \in 1..(Len(history) - 1) :
              history[i].analyzedAt >= history[i + 1].analyzedAt
        /\ history = MostRecent(IF Len(saved) < HISTORY_CAP THEN Len(saved)
                                ELSE HISTORY_CAP)

\* two saves went over the cap, a second apart, and two old entries are gone
C18_Witness ==
    /\ hs.pc = "idle"
    /\ Len(saved) = HISTORY_CAP + 2
    /\ Len(history) = HISTORY_CAP
    /\ history[1].analyzedAt > history[2].analyzedAt
    /\ history[2].analyzedAt = now - 1000
    /\ history[HISTORY_CAP] = saved[3]

\* ------------------------------------------------------------------ C19
HeadingFound == input.doc.b # <<>>

\* C19: extractSection returns an absent value exactly when no line matches a
\* heading alias, and the empty string when a heading matched over an empty
\* body; extractSkills scans the whole document only when the skills section
\* is absent.
C19_AbsentIsNotEmpty ==
    (~output.none /\ input.fn \in {"extractSection", "extractSkills"}) =>
        /\ output.absent <=> ~HeadingFound
        /\ (HeadingFound /\ input.doc.bBody = <<>>) =>
              (~output.absent /\ output.text = <<>>)
        /\ input.fn = "extractSkills" => (output.wholeDocument <=> ~HeadingFound)

\* ------------------------------------------------------------------ C20
ThreeSectionCall ==
    ~output.none /\ input.fn = "extractSection" /\ HeadingFound
    /\ input.headings = HeadingsOf(input.doc.b)

\* C20 as stated: whatever accepted form the three heading lines have, the
\* result is the body lines of B (joined and trimmed).
C20_Original == ThreeSectionCall => output.text = Trim(join(input.doc.bBody))

\* C20: the result is the body lines of B, joined and trimmed, when C's
\* heading line is exactly its alias or its alias and ":"; when it is the
\* alias and " ", the result runs on through C's heading line and body.
C20_SegmenterRoundTrip ==
    ThreeSectionCall =>
        output.text =
            IF input.doc.cForm \in {"exact", "colon"}
            THEN Trim(join(input.doc.bBody))
            ELSE Trim(join(input.doc.bBody
                           \o <<HeadingLine(input.doc.c, input.doc.cForm)>>
                           \o input.doc.cBody))

\* B under an "ALIAS etc" heading with a body that starts with blanks and
\* holds an empty line, A with a body, C under an "alias: ..." heading
C20_Witness ==
    /\ ThreeSectionCall
    /\ input.doc.bForm = "space"
    /\ input.doc.cForm = "colon"
    /\ input.doc.aBody # <<>>
    /\ Len(input.doc.bBody) > 2
    /\ output.text = Trim(join(input.doc.bBody))
    /\ output.text # join(input.doc.bBody)

\* ------------------------------------------------------------------ C21
\* the contact-indicator tokens of the claim: the email sigil, the names of
\* two social networks, two phone-label words, a run of ten digits
ContactTokens == {<<64>>, <<108, 105, 110, 107, 101, 100, 105, 110>>, <<103, 105, 116, 104, 117, 98>>, <<112, 104, 111, 110, 101>>, <<109, 111, 98, 105, 108, 101>>}
containsContactToken(line) ==
    \/ \E w \in ContactTokens : includes(toLowerCase(line), w)
    \/ \E i \in 1..(Len(line) - 9) : \A k \in 0..9 : line[i + k] \in 48..57
NameCandidates(lines) ==
    {i \in 1..Min(5, Len(nonBlankTrimmed(lines))) :
        /\ ~containsContactToken(nonBlankTrimmed(lines)[i])
        /\ Len(nonBlankTrimmed(lines)[i]) \in 2..50
        /\ ~startsWithHeaderWord(nonBlankTrimmed(lines)[i])}
FieldsExtracted == ~output.none /\ input.fn = "extractResumeFields"

\* C21: the five-line resume gives the name "John Doe", the email
\* "john@x.com", skills with python, react and docker, and the one education
\* line; and extractName returns the first of the first five non-blank lines
\* that holds no contact-indicator token, has a plausible length and does not
\* start with a resume-header word ("" when there is none).
C21_EndToEndResume ==
    FieldsExtracted =>
        /\ input.text = FiveLineResume =>
              /\ output.name = JohnDoe
              /\ output.email = JohnEmail
              /\ {Python, React, Docker} \subseteq output.skills
              /\ output.education = <<BTechLine>>
        /\ output.name =
              IF NameCandidates(input.text) = {} THEN <<>>
              ELSE nonBlankTrimmed(input.text)[
                       CHOOSE i \in NameCandidates(input.text) :
                           \A j \in NameCandidates(input.text) : i <= j]

\* what the extractors give instead: the name is "" for the five-line resume
\* (every one of its lines holds a character of the class), the other three
\* fields are as stated; a returned name never holds a character of the class
C21_NameByCharacterClass ==
    FieldsExtracted =>
        /\ input.text = FiveLineResume =>
              /\ output.name = <<>>
              /\ output.email = JohnEmail
              /\ {Python, React, Docker} \subseteq output.skills
              /\ output.education = <<BTechLine>>
        /\ \A i \in 1..Len(output.name) : output.name[i] \notin ContactClass

\* a resume whose name line holds no character of the class is the case where
\* a name comes out
C21_NameFound ==
    /\ FieldsExtracted
    /\ input.text = <<JohnEmail, AvaSacca>>
    /\ output.name = AvaSacca
    /\ output.email = JohnEmail

\* ------------------------------------------------------------------ C22
StoreDone == ~output.none /\ input.fn \in StorePaths
TrimmedLength == Len(Trim(input.text))

\* C22: on each of the four paths that store a resume, a text that has fewer
\* than 50 characters after trimming is rejected with an error and the stored
\* resume record stays as it was.
C22_TooShortRejected ==
    (StoreDone /\ TrimmedLength < 50) =>
        (output.error /\ output.resume = input.resume)

\* the length each path asks for: the popup's paste path 50 characters after
\* trimming, the popup's file path 50 characters before trimming, both
\* Resume Manager paths 30 characters after trimming; a rejected text leaves
\* the stored record as it was
C22_LengthAskedFor ==
    StoreDone =>
        /\ output.error <=>
              IF input.fn = "popup paste" THEN TrimmedLength < 50
              ELSE IF input.fn = "popup file" THEN Len(input.text) < 50
              ELSE TrimmedLength < 30
        /\ output.error => output.resume = input.resume

\* a pasted text of 49 characters and blanks is rejected by the popup and
\* leaves the stored resume alone
C22_PopupRejects ==
    /\ StoreDone
    /\ input.fn = "popup paste"
    /\ TrimmedLength = 49 /\ Len(input.text) > 50
    /\ input.resume # NoResume
    /\ output.error /\ output.resume = input.resume

\* ------------------------------------------------------------------ C23
Capped(posting) == length(posting.description) <= 8000

\* C23: the posting held in currentJobData, the posting of the last
\* UPSERT_CURRENT_JOB, the posting returned by GET_JOB_DATA and the posting
\* sent in ANALYZE_JOB each have a description of at most 8000 characters, on
\* every extraction path and after the fallback merge.
C23_DescriptionCap ==
    input.fn = "page" =>
        /\ Capped(output.data)
        /\ Capped(output.sent)
        /\ Capped(output.response)
        /\ Capped(output.request)

\* a short description merged with a fallback text of 9000 characters and
\* cut to 8000 (7999 once the two line feeds are one blank), held and sent in
\* an ANALYZE_JOB request
C23_Witness ==
    /\ input.fn = "page"
    /\ output.kind = "ANALYZE_JOB"
    /\ length(trim(input.description)) = 10
    /\ length(longestFallback(input.texts, 1, <<>>)) > 8000
    /\ length(output.request.description) = 7999
    /\ output.request = output.data
    /\ output.sent = output.data
    /\ output.response = output.data

\* ------------------------------------------------------------------ C28
PassDone == input.fn = "page" /\ output.passes >= 1

\* C28: ensureJobDescription applied to its own output returns the same
\* description, so the applications that follow the first one on a pass
\* (two on LinkedIn, three elsewhere) change nothing and the fallback text
\* is appended at most once; two passes over an unchanged page give equal
\* descriptions.
C28_FallbackMergeIdempotent ==
    PassDone =>
        /\ output.final = output.first
        /\ output.passes >= 2 => output.final = output.before

\* the part that holds: a pass is a function of the page, and the later
\* applications change nothing when the first one left 50 characters or
\* more with single blanks only and no blank at the end
C28_WhereIdempotent ==
    PassDone =>
        /\ output.passes >= 2 => output.final = output.before
        /\ (/\ length(output.first) >= 50
            /\ output.first = trim(collapseSpaces(output.first)))
              => output.final = output.first

\* a page with no description and a body text of 10 characters: the fallback
\* text is in the description more than once
C28_AppendedAgain ==
    /\ PassDone
    /\ input.description = <<>>
    /\ length(output.first) = 10
    /\ length(output.final) > 2 * length(output.first)

\* ------------------------------------------------------------------ C24
\* the request passed validation and its url had, when the request began, a
\* cache entry that is within its 24 hours still
CacheHit(p) ==
    /\ Done(p, "analyze") /\ PassedValidation(p)
    /\ proc[p].url # <<>>
    /\ ~pre[p].cached.none
    /\ now - pre[p].cached.timestamp <= CACHE_TTL_MS

ServedFromCache(p) ==
    /\ proc[p].kind = "analyze" /\ proc[p].pc = "cache_get"
    /\ ret'[p].tag = "return" /\ ret'[p].fromCache

\* C25: a result returned with fromCache = true was computed from the resume
\* text the request carries; once the user has saved another resume, a
\* request for a url analysed before does not get the analysis of the old
\* resume.
C25_CachedResultMatchesResume ==
    [][ServedFromCache(Caller) => ret'[Caller].data.resume = proc[Caller].resume]_vars

\* ------------------------------------------------------------------ C26
\* the response callback of request r renders a result
RendersResult(r) ==
    /\ rq[r].pc = "sendMessage"
    /\ rq'[r].pc = "done" /\ rq'[r].outcome = "success"
    /\ overlayPanel'.content = "result"

\* C26: a result rendered in the sidebar by the response callback of
\* requestAnalysis is the analysis of the job whose identity is
\* currentJobIdentity when it is rendered, however the request interleaves
\* with page changes.
C26_ResultBelongsToCurrentJob ==
    [][\A r \in Requests : RendersResult(r) => rq[r].job = currentJobIdentity]_vars

\* ------------------------------------------------------------------ C27
\* the stored posting and the stored identity agree: both empty, or the
\* identity is the one getJobIdentity gives for the stored posting
StateAgrees ==
    /\ currentJobData.none <=> currentJobIdentity = NoIdentity
    /\ ~currentJobData.none
       => currentJobIdentity = getJobIdentity(currentJobData)

\* the notification that tells the background about a stored posting:
\* CLEAR_CURRENT_JOB for none, UPSERT_CURRENT_JOB carrying it otherwise
NoticeFor(sent, sentJob, jobData) ==
    IF jobData.none
    THEN sent = "CLEAR_CURRENT_JOB"
    ELSE sent = "UPSERT_CURRENT_JOB" /\ sentJob = jobData

\* C27: in every reachable state of the content script currentJobData is
\* null exactly when currentJobIdentity is empty, and a non-null
\* currentJobData has currentJobIdentity = getJobIdentity(currentJobData);
\* the most recent notification sent is the one for currentJobData (none is
\* sent before the first one, while currentJobData is null): a step that
\* changes currentJobData sends the notification for the new value, and a
\* handler that sent a notification sent the one for the value it left
C27_ContentStateConsistent ==
    /\ [](StateAgrees
          /\ (ev.sent # "none"
              => NoticeFor(ev.sent, ev.sentJob, currentJobData)))
    /\ [][currentJobData' # currentJobData
          => NoticeFor(ev'.sent, ev'.sentJob, currentJobData')]_vars

\* a GET_JOB_DATA request replaced a stored LinkedIn posting by another one,
\* stored its identity and sent it
C27_Witness ==
    /\ ev.kind = "GET_JOB_DATA" /\ ev.extracted
    /\ ~ev.dataBefore.none
    /\ currentJobData # ev.dataBefore
    /\ currentJobIdentity # ev.idBefore
    /\ currentJobIdentity = getJobIdentity(currentJobData)
    /\ ev.sent = "UPSERT_CURRENT_JOB" /\ ev.sentJob = currentJobData

\* ------------------------------------------------------------------ C29
\* the message handled in slot p carried jobData, resumeText and a tabId
Carries(p) ==
    /\ show[p].pc # "none"
    /\ ~show[p].job.none /\ show[p].resume # <<>> /\ show[p].tabId # 0
\* the message handled in slot p lacked jobData or resumeText
Lacking(p) ==
    /\ show[p].pc # "none"
    /\ show[p].job.none \/ show[p].resume = <<>>

IsQueuedReply(m) == m.dest = "popup" /\ m.success /\ m.queued
IsLoading(m, t) == m.dest = "tab" /\ m.tab = t /\ m.type = "OPEN_OVERLAY_LOADING"
IsTerminal(m, t) ==
    m.dest = "tab" /\ m.tab = t /\ m.type \in {"SHOW_RESULT", "SHOW_ERROR"}

\* the popup was answered {success: true, queued: true} and the tab was sent
\* OPEN_OVERLAY_LOADING before anything else
Announced(p) ==
    /\ Len(show[p].log) >= 2
    /\ \E i, j \in 1..2 :
          /\ i # j
          /\ IsQueuedReply(show[p].log[i])
          /\ IsLoading(show[p].log[j], show[p].tabId)

\* what SHOW_ERROR reports: quota exhaustion, a failed validation, a backend
\* failure (unusable backend url, network error, http error, unreadable
\* body) or the timeout
ShowErrors ==
    {"rate_limited", "resume_required", "job_missing", "backend_url_invalid",
     "network_error", "http_error", "bad_json", "timeout"}

\* one terminal message followed, and it says what handleAnalyzeJob ended with
Terminated(p) ==
    LET last == show[p].log[3]
    IN /\ Len(show[p].log) = 3
       /\ IsTerminal(last, show[p].tabId)
       /\ last.type = "SHOW_RESULT"
          <=> (ret[p].tag = "return" /\ ret[p].success)
       /\ last.type = "SHOW_RESULT" => last.data = ret[p].data
       /\ last.type = "SHOW_ERROR" => last.error \in ShowErrors

ShowProtocol(p) ==
    /\ Carries(p)
       => /\ Announced(p)
          /\ show[p].pc = "queued" => Len(show[p].log) = 2
          /\ show[p].pc = "settled" => Terminated(p)
    /\ Lacking(p)
       => /\ Len(show[p].log) = 1
          /\ show[p].log[1].dest = "popup" /\ ~show[p].log[1].success

\* a step that takes up a message lacking jobData or resumeText
Refusal(p) ==
    /\ show'[p] # show[p]
    /\ show'[p].job.none \/ show'[p].resume = <<>>

\* C29: for every ANALYZE_AND_SHOW message carrying jobData, resumeText and a
\* tabId the worker first answers the popup {success: true, queued: true} and
\* sends OPEN_OVERLAY_LOADING to the tab, and afterwards sends that tab
\* exactly one terminal message, SHOW_RESULT when handleAnalyzeJob succeeded
\* (cache hit or backend success) and SHOW_ERROR otherwise; a message lacking
\* jobData or resumeText is answered {success: false} and causes no tab
\* message, no debit and no fetch
C29_AnalyzeAndShowProtocol ==
    /\ [](\A p \in Procs : ShowProtocol(p))
    /\ [][\A p \in Procs :
            Refusal(p) => UNCHANGED <<rateLimit, cache, proc, ret, eff>>]_vars
    /\ \A p \in Procs :
          (Carries(p) /\ show[p].pc = "queued") ~> (show[p].pc = "settled")

\* a queued analysis whose fetch ran into the 60 s timeout ended with
\* SHOW_ERROR, after the loading message and the reply
C29_Witness ==
    /\ Carries(Caller) /\ show[Caller].pc = "settled"
    /\ Announced(Caller) /\ Terminated(Caller)
    /\ show[Caller].log[3].type = "SHOW_ERROR"
    /\ show[Caller].log[3].error = "timeout"
    /\ eff[Caller].fetches = 1

\* ------------------------------------------------------------------ C30
\* the call of runAnalysis for click c has disabled the button and has
\* neither failed nor closed the popup
Running(c) == ra[c].pc \in {"query", "fresh", "verify", "sent", "closing"}

\* C30: from the moment runAnalysis disables the Analyze button until it
\* fails or the popup closes, the button stays disabled, whatever
\* storage-change, focus and visibility events arrive in between
C30_ButtonStaysDisabled ==
    \A c \in 1..MaxClicks : Running(c) => analyzeBtn.disabled

\* what does hold: a call of runAnalysis sends ANALYZE_AND_SHOW at most once
C30_SentAtMostOncePerRun ==
    popup.sent <= Cardinality({c \in 1..MaxClicks :
                                 ra[c].pc \in {"sent", "closing", "closed", "failed"}})

\* the double submission: two calls of runAnalysis are under way at once,
\* neither failed, and both have sent ANALYZE_AND_SHOW
C30_DoubleSubmission ==
    /\ popup.sent = 2
    /\ \A c \in 1..MaxClicks : ra[c].pc \in {"sent", "closing"}
====
